---- MODULE Spec2Model ----
(***************************************************************************)
(* Model of the SimpleBSONDB storage engine (package memory, the           *)
(* multi-database Storage of src/unnamed/part_001:482-1058) on top of the  *)
(* BSON file store (package storage, src/unnamed/part_003).                *)
(*                                                                         *)
(* Go strings are TLA+ strings.  A string held as a value in a record map  *)
(* or in the schema map is either plain text (a schema definition) or the  *)
(* JSON text AddRecord produced; the JSON text is kept in parsed form:     *)
(*     [kind |-> "text", s |-> "name:string age:int"]                      *)
(*     [kind |-> "json", obj |-> [field |-> value]]                        *)
(* Go maps are functions with a finite domain (<<>> is the empty map).     *)
(*                                                                         *)
(* The handlers of part_001:675-1021 select s.schemas, s.records and       *)
(* s.partialKeys; the Storage struct of part_001:506-512 holds these three *)
(* maps only inside s.dbStates[s.currentDB], which is what the selectors   *)
(* denote here (the same maps CreateSchema, loadFromPersistent and         *)
(* saveToPersistent reach through getDBState(s.currentDB)).                *)
(*                                                                         *)
(* Spec and its restrictions run the calls of the engine one after the     *)
(* other, each call as one step.  SpecConcurrent runs calls of several     *)
(* goroutines step by step under s.mutex, SpecCLI runs the command-line    *)
(* program of src/main.go, SpecDeleted keeps the history of deleted keys.  *)
(* SpecLSM runs the LSM tree of src/preprocessing/lsm.go, which the engine *)
(* does not use, on its own.                                               *)
(***************************************************************************)
EXTENDS Integers, Sequences, FiniteSets, TLC

VARIABLES currentDB, dbStates, files, clock, steps, faults, last,
          mutex, calls, process, deleted, lsm, written, dirs

\* currentDB, dbStates: the fields of Storage; files: the store file of each
\* store directory; clock: the last reading of time.Now(); steps, faults: calls
\* made and calls with an I/O failure; last: the last call and its result;
\* mutex: s.mutex; calls: the call each goroutine is in; process: the
\* command-line process; deleted: the keys deleted and not added since;
\* lsm: the fields of an LSMTree; written: the last Put or Delete of each
\* key; dirs: the directories below the directory of the stores.  files and
\* dirs are keyed by dbPath, the cleaned path of a directory.
vars == <<currentDB, dbStates, files, clock, steps, faults, last,
          mutex, calls, process, deleted, lsm, written, dirs>>

----------------------------------------------------------------------------
(* Bounds of the model *)

\* number of calls (and restarts) explored from the initial state
MaxSteps == 4

\* number of distinct clock readings time.Now() can return
MaxClock == 2

\* number of calls during which steps of file I/O fail
MaxFaults == 1

----------------------------------------------------------------------------
(* Program constants *)

\* getPartialKey: length of the index prefix
PartialKeyLen == 5

\* store.go: the entry of the file that holds the schema definitions
SchemasEntry == "__schemas__"

\* NewStorage: the database selected at construction
DefaultDB == "default"

----------------------------------------------------------------------------
(* Go maps *)

EmptyMap == <<>>

Put(f, k, v) == [x \in (DOMAIN f) \cup {k} |-> IF x = k THEN v ELSE f[x]]

Del(f, k) == [x \in (DOMAIN f) \ {k} |-> f[x]]

\* m[k] of a map of maps: the zero value (a nil map) when k is absent
Inner(m, k) == IF k \in DOMAIN m THEN m[k] ELSE EmptyMap

\* the sequences that enumerate the set S once each, in any order
\* (Go's unspecified map iteration order)
Orders(S) ==
  {q \in [1..Cardinality(S) -> S] : \A i, j \in 1..Cardinality(S) : i # j => q[i] # q[j]}

Range(q) == {q[i] : i \in 1..Len(q)}

----------------------------------------------------------------------------
(* Strings *)

HasPrefix(s, prefix) == Len(prefix) <= Len(s) /\ SubSeq(s, 1, Len(prefix)) = prefix

RECURSIVE IndexOf(_, _, _)
\* index of the first occurrence of the one-character string sep in s at
\* or after position i, 0 when there is none
IndexOf(s, sep, i) ==
  IF i > Len(s) THEN 0
  ELSE IF SubSeq(s, i, i) = sep THEN i
  ELSE IndexOf(s, sep, i + 1)

RECURSIVE Split(_, _)
\* strings.Split(s, sep) for a one-character separator
Split(s, sep) ==
  LET i == IndexOf(s, sep, 1) IN
    IF i = 0 THEN <<s>>
    ELSE <<SubSeq(s, 1, i - 1)>> \o Split(SubSeq(s, i + 1, Len(s)), sep)

RECURSIVE TrimSpace(_)
\* strings.TrimSpace, for the blank as the only white space
TrimSpace(s) ==
  IF Len(s) = 0 THEN s
  ELSE IF SubSeq(s, 1, 1) = " " THEN TrimSpace(SubSeq(s, 2, Len(s)))
  ELSE IF SubSeq(s, Len(s), Len(s)) = " " THEN TrimSpace(SubSeq(s, 1, Len(s) - 1))
  ELSE s

----------------------------------------------------------------------------
(* String values and JSON values *)

Text(s) == [kind |-> "text", s |-> s]

Json(obj) == [kind |-> "json", obj |-> obj]

JStr(s) == [t |-> "string", s |-> s]

\* a JSON number, as the float64 json.Unmarshal yields, in tenths
JNum(tenths) == [t |-> "number", tenths |-> tenths]

JBool(b) == [t |-> "bool", b |-> b]

\* the JSON number 1e19: a float64 whole number beyond the range of int64
JHuge == [t |-> "huge"]

\* the JSON value null
JNull == [t |-> "null"]

\* time.Now().Format(time.RFC3339) at clock reading n
TimeString(n) == "2026-01-01T00:00:0" \o ToString(n) \o "Z"

----------------------------------------------------------------------------
(* package storage: the BSON file store (part_003)                         *)
(* A file is missing, unreadable as BSON, or holds one document            *)
(* schema -> key -> string.                                                *)

NoFile == [state |-> "missing"]

CorruptFile == [state |-> "corrupt"]

FileOf(doc) == [state |-> "ok", doc |-> doc]

\* outcomes of one ioutil.WriteFile: written, refused with the file left
\* as it was, or failed after the file was truncated
WriteOutcomes == {"ok", "fail", "torn"}

\* LoadRecords; readOk: ioutil.ReadFile succeeds
LoadRecords(file, readOk) ==
  IF file.state = "missing" THEN [err |-> FALSE, records |-> EmptyMap]
  ELSE IF ~readOk THEN [err |-> TRUE, records |-> EmptyMap]
  ELSE IF file.state = "corrupt" THEN [err |-> TRUE, records |-> EmptyMap]
  ELSE [err |-> FALSE, records |-> file.doc]

\* SaveRecords; w: the outcome of MkdirAll / WriteFile
SaveRecords(file, records, w) ==
  IF w = "ok" THEN [err |-> FALSE, file |-> FileOf(records)]
  ELSE IF w = "torn" THEN [err |-> TRUE, file |-> CorruptFile]
  ELSE [err |-> TRUE, file |-> file]

\* SaveSchemas: re-reads the file, replaces its "__schemas__" entry by the
\* schema map and writes the file again
SaveSchemas(file, schemas, readOk, w) ==
  LET lr == LoadRecords(file, readOk) IN
    IF lr.err THEN [err |-> TRUE, file |-> file]
    ELSE SaveRecords(file, Put(lr.records, SchemasEntry, schemas), w)

\* LoadSchemas: the string values of the "__schemas__" entry
LoadSchemas(file, readOk) ==
  LET lr == LoadRecords(file, readOk) IN
    IF lr.err THEN [err |-> TRUE, schemas |-> EmptyMap]
    ELSE IF SchemasEntry \notin DOMAIN lr.records THEN [err |-> FALSE, schemas |-> EmptyMap]
    ELSE [err |-> FALSE, schemas |-> lr.records[SchemasEntry]]

----------------------------------------------------------------------------
(* Schema validator *)

RECURSIVE ParseParts(_, _)
\* the loop of parseSchemaFields over the blank-separated parts, in order
ParseParts(parts, fields) ==
  IF parts = <<>> THEN fields
  ELSE LET part == TrimSpace(Head(parts))
           pair == Split(part, ":")
       IN IF part = "" THEN ParseParts(Tail(parts), fields)
          ELSE IF Len(pair) = 2
            THEN ParseParts(Tail(parts), Put(fields, TrimSpace(pair[1]), TrimSpace(pair[2])))
            ELSE ParseParts(Tail(parts), fields)

\* parseSchemaFields that declares no field at all when one part is not of
\* the form field:type
parseSchemaFields_AllOrNothing(schemaDef) ==
  IF schemaDef.kind = "text"
    THEN LET parts == Split(schemaDef.s, " ") IN
           IF \E i \in DOMAIN parts :
                TrimSpace(parts[i]) # "" /\ Len(Split(TrimSpace(parts[i]), ":")) # 2
             THEN EmptyMap
             ELSE ParseParts(parts, EmptyMap)
  ELSE EmptyMap

\* parseSchemaFields.  A JSON text written by AddRecord has no blank and at
\* least the colons of created_at and updated_at, so its single part never
\* splits in two and it declares no field.
parseSchemaFields(schemaDef) ==
  IF schemaDef.kind = "text" THEN ParseParts(Split(schemaDef.s, " "), EmptyMap)
  ELSE EmptyMap

\* validateFieldType: TRUE when it returns nil.  For 1e19 the conversion
\* int64(v) is out of range; no int64 converts back to 1e19, so the test
\* v != float64(int64(v)) rejects it whatever the conversion yields.
validateFieldType(value, expectedType) ==
  CASE expectedType = "string" -> value.t = "string"
    [] expectedType \in {"int", "integer"} ->
         value.t = "number" /\ value.tenths % 10 = 0
    [] expectedType \in {"float", "double"} -> value.t \in {"number", "huge"}
    [] expectedType \in {"bool", "boolean"} -> value.t = "bool"
    [] OTHER -> TRUE

\* validateRecordAgainstSchema, for a schema that exists and a record that
\* parses: TRUE when it returns nil
validateRecordAgainstSchema(schemas, schemaName, obj) ==
  LET fields == parseSchemaFields(schemas[schemaName]) IN
    \A field \in DOMAIN fields :
      field \in DOMAIN obj => validateFieldType(obj[field], fields[field])

----------------------------------------------------------------------------
(* Key extraction *)

\* fmt.Sprintf("%v", value) for the values of the model (numbers are small
\* and not negative)
Sprintv(value) ==
  CASE value.t = "string" -> value.s
    [] value.t = "number" ->
         IF value.tenths % 10 = 0 THEN ToString(value.tenths \div 10)
         ELSE ToString(value.tenths \div 10) \o "." \o ToString(value.tenths % 10)
    [] value.t = "bool" -> IF value.b THEN "true" ELSE "false"
    [] value.t = "huge" -> "1e+19"
    [] OTHER -> "<nil>"

\* extractKeyFromRecord that prefers the field name to the field id
extractKeyFromRecord_NameFirst(obj) ==
  IF "name" \in DOMAIN obj THEN {[raw |-> FALSE, key |-> Sprintv(obj["name"])]}
  ELSE IF "id" \in DOMAIN obj THEN {[raw |-> FALSE, key |-> Sprintv(obj["id"])]}
  ELSE IF "key" \in DOMAIN obj THEN {[raw |-> FALSE, key |-> Sprintv(obj["key"])]}
  ELSE IF DOMAIN obj = {} THEN {[raw |-> TRUE, key |-> ""]}
  ELSE {[raw |-> FALSE, key |-> IF obj[f].t = "string" THEN obj[f].s ELSE f] : f \in DOMAIN obj}

\* extractKeyFromRecord on the JSON text of obj: the keys it can return.
\* raw marks the return of the record data itself.  Without id, name and
\* key the loop returns on the first field of Go's map iteration.
extractKeyFromRecord(obj) ==
  IF "id" \in DOMAIN obj THEN {[raw |-> FALSE, key |-> Sprintv(obj["id"])]}
  ELSE IF "name" \in DOMAIN obj THEN {[raw |-> FALSE, key |-> Sprintv(obj["name"])]}
  ELSE IF "key" \in DOMAIN obj THEN {[raw |-> FALSE, key |-> Sprintv(obj["key"])]}
  ELSE IF DOMAIN obj = {} THEN {[raw |-> TRUE, key |-> ""]}
  ELSE {[raw |-> FALSE, key |-> IF obj[f].t = "string" THEN obj[f].s ELSE f] : f \in DOMAIN obj}

\* DeriveKey that puts a placeholder in the place of an empty key
DeriveKey_Placeholder(obj, k) ==
  LET key == IF k.key = "" \/ k.raw
               THEN IF "id" \in DOMAIN obj THEN Sprintv(obj["id"])
                    ELSE IF "name" \in DOMAIN obj THEN Sprintv(obj["name"])
                    ELSE IF "key" \in DOMAIN obj THEN Sprintv(obj["key"])
                    ELSE k.key
               ELSE k.key
  IN IF key = "" THEN "unknown" ELSE key

\* AddRecord, lines 731-741: the key after the second look at id, name, key
DeriveKey(obj, k) ==
  IF k.key = "" \/ k.raw
    THEN IF "id" \in DOMAIN obj THEN Sprintv(obj["id"])
         ELSE IF "name" \in DOMAIN obj THEN Sprintv(obj["name"])
         ELSE IF "key" \in DOMAIN obj THEN Sprintv(obj["key"])
         ELSE k.key
    ELSE k.key

----------------------------------------------------------------------------
(* Partial-key index: schema -> prefix -> list of full keys *)

getPartialKey(fullKey) ==
  IF Len(fullKey) <= PartialKeyLen THEN fullKey ELSE SubSeq(fullKey, 1, PartialKeyLen)

\* a nil slice when the bucket is absent
Bucket(schemaIndex, partialKey) ==
  IF partialKey \in DOMAIN schemaIndex THEN schemaIndex[partialKey] ELSE <<>>

\* updatePartialKeyIndex that appends a key without looking for it first
updatePartialKeyIndex_AlwaysAppend(partialKeys, schemaName, fullKey, add) ==
  LET pk == IF schemaName \in DOMAIN partialKeys THEN partialKeys
            ELSE Put(partialKeys, schemaName, EmptyMap)
      partialKey == getPartialKey(fullKey)
      bucket == Bucket(pk[schemaName], partialKey)
  IN IF add
       THEN Put(pk, schemaName, Put(pk[schemaName], partialKey, Append(bucket, fullKey)))
       ELSE Put(pk, schemaName,
                Put(pk[schemaName], partialKey, SelectSeq(bucket, LAMBDA key : key # fullKey)))

updatePartialKeyIndex(partialKeys, schemaName, fullKey, add) ==
  LET pk == IF schemaName \in DOMAIN partialKeys THEN partialKeys
            ELSE Put(partialKeys, schemaName, EmptyMap)
      partialKey == getPartialKey(fullKey)
      bucket == Bucket(pk[schemaName], partialKey)
  IN IF add
       THEN IF fullKey \in Range(bucket) THEN pk
            ELSE Put(pk, schemaName, Put(pk[schemaName], partialKey, Append(bucket, fullKey)))
       ELSE Put(pk, schemaName,
                Put(pk[schemaName], partialKey, SelectSeq(bucket, LAMBDA key : key # fullKey)))

\* the buckets rebuildPartialKeyIndex can build for one schema's record map
BucketsOf(schemaRecords) ==
  LET prefixes == {getPartialKey(k) : k \in DOMAIN schemaRecords}
      keysOf(p) == {k \in DOMAIN schemaRecords : getPartialKey(k) = p}
      lists == UNION {Orders(keysOf(p)) : p \in prefixes}
  IN {b \in [prefixes -> lists] : \A p \in prefixes : Range(b[p]) = keysOf(p)}

\* rebuildPartialKeyIndex: the indexes it can build from the record maps
\* (one per order in which Go ranges over the keys)
rebuildPartialKeyIndex(records) ==
  LET names == (DOMAIN records) \ {SchemasEntry}
      all == UNION {BucketsOf(records[n]) : n \in names}
  IN {pk \in [names -> all] : \A n \in names : pk[n] \in BucketsOf(records[n])}

RECURSIVE MatchesIn(_, _, _)
\* the loop of getRecordsByPartialKey over the buckets, taken in the order
\* given by the sequence order
MatchesIn(schemaIndex, partialKey, order) ==
  IF order = <<>> THEN <<>>
  ELSE LET partial == Head(order) IN
    (IF HasPrefix(partial, partialKey) \/ HasPrefix(partialKey, partial)
       THEN SelectSeq(schemaIndex[partial], LAMBDA key : HasPrefix(key, partialKey))
       ELSE <<>>)
    \o MatchesIn(schemaIndex, partialKey, Tail(order))

\* getRecordsByPartialKey that returns the whole bucket of a long partial key
getRecordsByPartialKey_FirstFive(partialKeys, schemaName, partialKey, order) ==
  IF partialKey = "" THEN <<>>
  ELSE IF schemaName \notin DOMAIN partialKeys THEN <<>>
  ELSE IF Len(partialKey) >= PartialKeyLen
    THEN Bucket(partialKeys[schemaName], SubSeq(partialKey, 1, PartialKeyLen))
    ELSE MatchesIn(partialKeys[schemaName], partialKey, order)

\* getRecordsByPartialKey; order: the order in which Go ranges over the
\* buckets of the schema (used by short partial keys only)
getRecordsByPartialKey(partialKeys, schemaName, partialKey, order) ==
  IF partialKey = "" THEN <<>>
  ELSE IF schemaName \notin DOMAIN partialKeys THEN <<>>
  ELSE IF Len(partialKey) >= PartialKeyLen
    THEN SelectSeq(Bucket(partialKeys[schemaName], SubSeq(partialKey, 1, PartialKeyLen)),
                   LAMBDA key : HasPrefix(key, partialKey))
    ELSE MatchesIn(partialKeys[schemaName], partialKey, order)

\* the orders in which Go can range over the buckets of a schema
BucketOrders(partialKeys, schemaName) ==
  IF schemaName \in DOMAIN partialKeys THEN Orders(DOMAIN partialKeys[schemaName])
  ELSE {<<>>}

----------------------------------------------------------------------------
(* Inputs of the calls *)

\* "./default" is a second name of the directory of "default"
DBNames == {"default", "other", "./default"}

SchemaNames == {"User", "__schemas__"}

SchemaDefs == {"name:string age:int", "name:string age"}

BadJson == [valid |-> FALSE]

JsonObject(obj) == [valid |-> TRUE, obj |-> obj]

Fields1(f, v) == Put(EmptyMap, f, v)

Fields2(f, v, g, w) == Put(Put(EmptyMap, f, v), g, w)

\* the record data passed to AddRecord
RecordInputs ==
  { BadJson,
    JsonObject(Fields2("name", JStr("Alice"), "age", JNum(300))),
    JsonObject(Fields1("name", JStr("Alices"))),
    JsonObject(Fields1("name", JStr("Ali"))),
    JsonObject(Fields2("name", JStr("Bob"), "age", JNum(305))),
    JsonObject(Fields1("name", JStr(""))) }

\* the keys passed to GetRecord and DeleteRecord
LookupKeys ==
  {"", "Al", "Ali", "Alice", "Alices", "Alicesx", "Bo", "__sch"}

----------------------------------------------------------------------------
(* File I/O outcomes of one call *)

\* saveToPersistent: the write of SaveRecords, then the read and the write
\* of SaveSchemas
NoFault == [w1 |-> "ok", r |-> TRUE, w2 |-> "ok"]

SaveIO ==
  {NoFault}
    \cup {[NoFault EXCEPT !.w1 = w] : w \in WriteOutcomes \ {"ok"}}
    \cup {[NoFault EXCEPT !.r = FALSE]}
    \cup {[NoFault EXCEPT !.w2 = w] : w \in WriteOutcomes \ {"ok"}}

\* loadFromPersistent: the MkdirAll of getOrCreateStore, the read of
\* LoadRecords, then the read of LoadSchemas
NoLoadFault == [mk |-> TRUE, r1 |-> TRUE, r2 |-> TRUE]

LoadIO == [mk : BOOLEAN, r1 : BOOLEAN, r2 : BOOLEAN]

\* the elements of a database name between the path separators, as
\* filepath.Join reads them; a string is not taken apart here, so the names
\* of DBNames that hold a separator are listed
Elements(dbName) ==
  CASE dbName = "./default" -> <<".", "default">>
    [] OTHER -> <<dbName>>

\* filepath.Clean, which filepath.Join applies, on the elements of a path
\* below the directory of the stores: "." and empty elements go, ".." takes
\* the element before it away
RECURSIVE Clean(_)
Clean(elements) ==
  IF elements = <<>> THEN <<>>
  ELSE LET front == Clean(SubSeq(elements, 1, Len(elements) - 1))
           e == elements[Len(elements)]
       IN IF e \in {".", ""} THEN front
          ELSE IF e = ".." /\ front # <<>> /\ front[Len(front)] # ".."
                 THEN SubSeq(front, 1, Len(front) - 1)
          ELSE Append(front, e)

\* dbPath of getOrCreateStore: the directory of the store of a database, as
\* its elements below filepath.Dir(StoragePath); the store is the file
\* store.bson of that directory, so two names with one dbPath have one file
dbPath(dbName) == Clean(Elements(dbName))

\* whether a directory is there; the directory of the stores always is
IsDir(directories, path) == path = <<>> \/ path \in directories

\* os.MkdirAll: the directory and every directory above it are there
MkdirAll(directories, path) ==
  directories \cup {SubSeq(path, 1, n) : n \in 1..Len(path)}

\* getOrCreateStore: the directories after it.  A store already in s.stores
\* is returned as it is; otherwise MkdirAll makes the directory of the
\* database, and its error is dropped.
getOrCreateStore(directories, dbName, cached, mk) ==
  IF cached \/ ~mk THEN directories ELSE MkdirAll(directories, dbPath(dbName))

\* MkdirAll at the head of SaveRecords: the directories the write w can
\* leave.  After a write that was refused the directory is there or not
\* (MkdirAll failed, or WriteFile did).
SaveDirs(directories, dbName, w) ==
  IF IsDir(directories, dbPath(dbName)) THEN {directories}
  ELSE IF w = "fail" THEN {directories, MkdirAll(directories, dbPath(dbName))}
  ELSE {MkdirAll(directories, dbPath(dbName))}

\* a load whose failures all happen: a read only fails on a file that is
\* there, MkdirAll only on a directory that is not
RealLoadFault(directories, dbName, cached, failed, io) ==
  /\ (io.r1 /\ io.r2) \/ failed
  /\ io.mk \/ (~cached /\ ~IsDir(directories, dbPath(dbName)))

----------------------------------------------------------------------------
(* package memory: the engine *)

\* a DatabaseState as NewStorage and getDBState make it
NewDatabaseState == [records |-> EmptyMap, schemas |-> EmptyMap, partialKeys |-> EmptyMap]

\* s.dbStates after getDBState(dbName)
getDBState(states, dbName) ==
  IF dbName \in DOMAIN states THEN states ELSE Put(states, dbName, NewDatabaseState)

\* saveToPersistent of one database state onto its file: the error and the
\* file it leaves
saveToPersistent(dbState, file, io) ==
  LET s1 == SaveRecords(file, dbState.records, io.w1) IN
    IF s1.err THEN s1
    ELSE SaveSchemas(s1.file, dbState.schemas, io.r, io.w2)

\* loadFromPersistent then rebuildPartialKeyIndex: the states the database
\* can be left in (a failed load leaves an empty map), and whether a load
\* failed
loadFromPersistent(dbState, file, io) ==
  LET lr == LoadRecords(file, io.r1)
      ls == LoadSchemas(file, io.r2)
      records == IF lr.err THEN EmptyMap ELSE lr.records
      schemas == IF ls.err THEN EmptyMap ELSE ls.schemas
  IN [failed |-> lr.err \/ ls.err,
      states |-> {[records |-> records, schemas |-> schemas, partialKeys |-> pk] :
                    pk \in rebuildPartialKeyIndex(records)}]

\* the state of the current database
Cur == dbStates[currentDB]

\* what a call leaves behind: the op, its arguments, the error it returned,
\* the value it returned, whether it called saveToPersistent and whether a
\* step of file I/O failed during it
Outcome(op, schema, arg, err, val, saved, iofail) ==
  [op |-> op, schema |-> schema, arg |-> arg, err |-> err, val |-> val,
   saved |-> saved, iofail |-> iofail]

NoValue == <<>>

\* the goroutines that call the engine
Goroutines == {"g1", "g2"}

\* a goroutine that is in no call
NoCall == [pc |-> "idle"]

\* no LSM tree has been made yet
NoTree == [state |-> "none"]

Init ==
  /\ currentDB = DefaultDB
  /\ dbStates = Put(EmptyMap, DefaultDB, NewDatabaseState)
  /\ files = [path \in {dbPath(dbName) : dbName \in DBNames} |-> NoFile]
  /\ clock = 1
  /\ steps = 0
  /\ faults = 0
  /\ last = Outcome("new", "", "", "nil", NoValue, FALSE, FALSE)
  \* sync.RWMutex: whether a writer holds it and how many readers hold it
  /\ mutex = [writer |-> FALSE, readers |-> 0]
  /\ calls = [g \in Goroutines |-> NoCall]
  /\ process = [state |-> "none"]
  /\ deleted = {}
  /\ lsm = NoTree
  /\ written = EmptyMap
  /\ dirs = {dbPath(DefaultDB)}

\* a call made on its own: no other goroutine is in a call, no command-line
\* process is involved, no history is kept, no LSM tree is in use
Sequential == UNCHANGED <<mutex, calls, process, deleted, lsm, written>>

\* Flush with the in-memory change undone when saveToPersistent fails
Flush_RollBack(op, schema, arg, state, io) ==
  LET sv == saveToPersistent(state, files[dbPath(currentDB)], io) IN
    /\ dbStates' = IF sv.err THEN dbStates ELSE [dbStates EXCEPT ![currentDB] = state]
    /\ files' = [files EXCEPT ![dbPath(currentDB)] = sv.file]
    /\ dirs' \in SaveDirs(dirs, currentDB, io.w1)
    /\ faults' = IF sv.err THEN faults + 1 ELSE faults
    /\ last' = Outcome(op, schema, arg, IF sv.err THEN "IOError" ELSE "nil",
                       NoValue, TRUE, sv.err)

\* a mutating call that ends with saveToPersistent of the current database
Flush(op, schema, arg, state, io) ==
  LET sv == saveToPersistent(state, files[dbPath(currentDB)], io) IN
    /\ dbStates' = [dbStates EXCEPT ![currentDB] = state]
    /\ files' = [files EXCEPT ![dbPath(currentDB)] = sv.file]
    /\ dirs' \in SaveDirs(dirs, currentDB, io.w1)
    /\ faults' = IF sv.err THEN faults + 1 ELSE faults
    /\ last' = Outcome(op, schema, arg, IF sv.err THEN "IOError" ELSE "nil",
                       NoValue, TRUE, sv.err)

\* a call that returns an error before it changes anything
Reject(op, schema, arg, err) ==
  /\ UNCHANGED <<dbStates, files, dirs, faults>>
  /\ last' = Outcome(op, schema, arg, err, NoValue, FALSE, FALSE)

\* NewStorage: a new process on the same files
NewStorage(io) ==
  /\ steps < MaxSteps
  /\ io = NoLoadFault \/ faults < MaxFaults
  /\ LET ld == loadFromPersistent(NewDatabaseState, files[dbPath(DefaultDB)], io) IN
       /\ RealLoadFault(dirs, DefaultDB, FALSE, ld.failed, io)
       /\ \E state \in ld.states :
            dbStates' = Put(EmptyMap, DefaultDB, state)
       /\ faults' = IF ld.failed \/ ~io.mk THEN faults + 1 ELSE faults
       /\ last' = Outcome("new", "", "", "nil", NoValue, FALSE, ld.failed \/ ~io.mk)
  /\ dirs' = getOrCreateStore(dirs, DefaultDB, FALSE, io.mk)
  /\ currentDB' = DefaultDB
  /\ steps' = steps + 1
  /\ UNCHANGED <<files, clock>>

\* UseDB that stays on the database it was on when the load fails
UseDB_StayOnFailure(dbName, sio, lio) ==
  /\ steps < MaxSteps
  /\ (sio = NoFault /\ lio = NoLoadFault) \/ faults < MaxFaults
  /\ LET sv == saveToPersistent(Cur, files[dbPath(currentDB)], sio)
         saved == [files EXCEPT ![dbPath(currentDB)] = sv.file]
         states == getDBState(dbStates, dbName)
         ld == loadFromPersistent(states[dbName], saved[dbPath(dbName)], lio)
     IN /\ \E made \in SaveDirs(dirs, currentDB, sio.w1) :
             /\ RealLoadFault(made, dbName, dbName \in DOMAIN dbStates, ld.failed, lio)
             /\ dirs' = getOrCreateStore(made, dbName, dbName \in DOMAIN dbStates, lio.mk)
        /\ files' = saved
        /\ \E state \in ld.states :
             dbStates' = [states EXCEPT ![dbName] = state]
        /\ faults' = IF sv.err \/ ld.failed \/ ~lio.mk THEN faults + 1 ELSE faults
        /\ last' = Outcome("use", "", dbName, "nil", NoValue, TRUE,
                           sv.err \/ ld.failed \/ ~lio.mk)
  /\ currentDB' = IF loadFromPersistent(getDBState(dbStates, dbName)[dbName],
                                        files[dbPath(dbName)], lio).failed
                     THEN currentDB ELSE dbName
  /\ steps' = steps + 1
  /\ UNCHANGED clock

\* UseDB: the error of saveToPersistent is dropped
UseDB(dbName, sio, lio) ==
  /\ steps < MaxSteps
  /\ (sio = NoFault /\ lio = NoLoadFault) \/ faults < MaxFaults
  /\ LET sv == saveToPersistent(Cur, files[dbPath(currentDB)], sio)
         saved == [files EXCEPT ![dbPath(currentDB)] = sv.file]
         states == getDBState(dbStates, dbName)
         ld == loadFromPersistent(states[dbName], saved[dbPath(dbName)], lio)
     IN /\ \E made \in SaveDirs(dirs, currentDB, sio.w1) :
             /\ RealLoadFault(made, dbName, dbName \in DOMAIN dbStates, ld.failed, lio)
             /\ dirs' = getOrCreateStore(made, dbName, dbName \in DOMAIN dbStates, lio.mk)
        /\ files' = saved
        /\ \E state \in ld.states :
             dbStates' = [states EXCEPT ![dbName] = state]
        /\ faults' = IF sv.err \/ ld.failed \/ ~lio.mk THEN faults + 1 ELSE faults
        /\ last' = Outcome("use", "", dbName, "nil", NoValue, TRUE,
                           sv.err \/ ld.failed \/ ~lio.mk)
  /\ currentDB' = dbName
  /\ steps' = steps + 1
  /\ UNCHANGED clock

\* CreateSchema, lines 664-669: the database state before the flush
createSchema(dbState, name, fields) ==
  LET schemas == Put(dbState.schemas, name, Text(fields))
      records == IF name \in DOMAIN dbState.records THEN dbState.records
                 ELSE Put(dbState.records, name, EmptyMap)
  IN [dbState EXCEPT !.schemas = schemas, !.records = records]

CreateSchema(name, fields, io) ==
  /\ steps < MaxSteps
  /\ io = NoFault \/ faults < MaxFaults
  /\ Flush("schema", name, fields, createSchema(Cur, name, fields), io)
  /\ steps' = steps + 1
  /\ UNCHANGED <<currentDB, clock>>

\* AddRecord that stores the record before it validates it
AddRecord_StoreFirst(schemaName, recordData, now, io) ==
  /\ steps < MaxSteps
  /\ io = NoFault \/ faults < MaxFaults
  /\ steps' = steps + 1
  /\ UNCHANGED currentDB
  /\ IF schemaName \notin DOMAIN Cur.schemas
       THEN /\ io = NoFault /\ now = clock /\ UNCHANGED clock
            /\ Reject("add", schemaName, recordData, "NotFound")
     ELSE IF ~recordData.valid
       THEN /\ io = NoFault /\ now = clock /\ UNCHANGED clock
            /\ Reject("add", schemaName, recordData, "InvalidInput")
     ELSE
       LET stamp == JStr(TimeString(now))
           obj == Put(Put(recordData.obj, "created_at", stamp), "updated_at", stamp)
       IN /\ clock' = now
          /\ \E k \in extractKeyFromRecord(obj) :
               LET key == DeriveKey(obj, k)
                   records == Put(Cur.records, schemaName,
                                  Put(Inner(Cur.records, schemaName), key, Json(obj)))
                   pk == updatePartialKeyIndex(Cur.partialKeys, schemaName, key, TRUE)
               IN IF key = ""
                    THEN /\ io = NoFault
                         /\ Reject("add", schemaName, recordData, "KeyExtractionFailed")
                  ELSE IF ~validateRecordAgainstSchema(Cur.schemas, schemaName, obj)
                    THEN /\ io = NoFault
                         /\ dbStates' = [dbStates EXCEPT ![currentDB] =
                                           [Cur EXCEPT !.records = records, !.partialKeys = pk]]
                         /\ UNCHANGED <<files, dirs, faults>>
                         /\ last' = Outcome("add", schemaName, recordData,
                                            "ValidationFailed", NoValue, FALSE, FALSE)
                  ELSE Flush("add", schemaName, recordData,
                             [Cur EXCEPT !.records = records, !.partialKeys = pk], io)

\* addRecord that validates the record and derives its key as the caller
\* wrote it, and stamps it only when it stores it
addRecord_StampLast(dbState, schemaName, recordData, now) ==
  IF schemaName \notin DOMAIN dbState.schemas
    THEN {[err |-> "NotFound", state |-> dbState, timed |-> FALSE]}
  ELSE IF ~recordData.valid
    THEN {[err |-> "InvalidInput", state |-> dbState, timed |-> FALSE]}
  ELSE
    LET stamp == JStr(TimeString(now))
        obj == Put(Put(recordData.obj, "created_at", stamp), "updated_at", stamp)
    IN IF ~validateRecordAgainstSchema(dbState.schemas, schemaName, recordData.obj)
         THEN {[err |-> "ValidationFailed", state |-> dbState, timed |-> TRUE]}
       ELSE
         { LET key == DeriveKey(recordData.obj, k) IN
             IF key = ""
               THEN [err |-> "KeyExtractionFailed", state |-> dbState, timed |-> TRUE]
             ELSE
               LET records == Put(dbState.records, schemaName,
                                  Put(Inner(dbState.records, schemaName), key, Json(obj)))
                   pk == updatePartialKeyIndex(dbState.partialKeys, schemaName, key, TRUE)
               IN [err |-> "nil",
                   state |-> [dbState EXCEPT !.records = records, !.partialKeys = pk],
                   timed |-> TRUE]
           : k \in extractKeyFromRecord(recordData.obj) }

\* AddRecord, lines 705-752: the results it can come to before the flush
\* (one per key extractKeyFromRecord can return): the error, the database
\* state, and whether time.Now() was read
addRecord(dbState, schemaName, recordData, now) ==
  IF schemaName \notin DOMAIN dbState.schemas
    THEN {[err |-> "NotFound", state |-> dbState, timed |-> FALSE]}
  ELSE IF ~recordData.valid
    THEN {[err |-> "InvalidInput", state |-> dbState, timed |-> FALSE]}
  ELSE
    LET stamp == JStr(TimeString(now))
        obj == Put(Put(recordData.obj, "created_at", stamp), "updated_at", stamp)
    IN IF ~validateRecordAgainstSchema(dbState.schemas, schemaName, obj)
         THEN {[err |-> "ValidationFailed", state |-> dbState, timed |-> TRUE]}
       ELSE
         { LET key == DeriveKey(obj, k) IN
             IF key = ""
               THEN [err |-> "KeyExtractionFailed", state |-> dbState, timed |-> TRUE]
             ELSE
               LET records == Put(dbState.records, schemaName,
                                  Put(Inner(dbState.records, schemaName), key, Json(obj)))
                   pk == updatePartialKeyIndex(dbState.partialKeys, schemaName, key, TRUE)
               IN [err |-> "nil",
                   state |-> [dbState EXCEPT !.records = records, !.partialKeys = pk],
                   timed |-> TRUE]
           : k \in extractKeyFromRecord(obj) }

AddRecord(schemaName, recordData, now, io) ==
  /\ steps < MaxSteps
  /\ io = NoFault \/ faults < MaxFaults
  /\ steps' = steps + 1
  /\ UNCHANGED currentDB
  /\ \E res \in addRecord(Cur, schemaName, recordData, now) :
       /\ IF res.timed THEN clock' = now ELSE now = clock /\ UNCHANGED clock
       /\ IF res.err = "nil"
            THEN Flush("add", schemaName, recordData, res.state, io)
            ELSE io = NoFault /\ Reject("add", schemaName, recordData, res.err)

\* DeleteRecord that resolves a key that is not stored as GetRecord does
DeleteRecord_Partial(schemaName, key, io) ==
  /\ steps < MaxSteps
  /\ io = NoFault \/ faults < MaxFaults
  /\ steps' = steps + 1
  /\ UNCHANGED <<currentDB, clock>>
  /\ LET matches == {k \in DOMAIN Inner(Cur.records, schemaName) : HasPrefix(k, key)}
         fullKey == IF key \notin DOMAIN Inner(Cur.records, schemaName)
                       /\ key # "" /\ Cardinality(matches) = 1
                    THEN CHOOSE k \in matches : TRUE ELSE key
     IN IF schemaName \notin DOMAIN Cur.schemas
          THEN io = NoFault /\ Reject("delete", schemaName, key, "NotFound")
        ELSE IF fullKey \notin DOMAIN Inner(Cur.records, schemaName)
          THEN io = NoFault /\ Reject("delete", schemaName, key, "NotFound")
        ELSE
          LET records == Put(Cur.records, schemaName, Del(Cur.records[schemaName], fullKey))
              pk == updatePartialKeyIndex(Cur.partialKeys, schemaName, fullKey, FALSE)
          IN Flush("delete", schemaName, key,
                   [Cur EXCEPT !.records = records, !.partialKeys = pk], io)

\* DeleteRecord, lines 969-985: the error and the database state before the
\* flush
deleteRecord(dbState, schemaName, key) ==
  IF schemaName \notin DOMAIN dbState.schemas
    THEN [err |-> "NotFound", state |-> dbState]
  ELSE IF key \notin DOMAIN Inner(dbState.records, schemaName)
    THEN [err |-> "NotFound", state |-> dbState]
  ELSE
    LET records == Put(dbState.records, schemaName, Del(dbState.records[schemaName], key))
        pk == updatePartialKeyIndex(dbState.partialKeys, schemaName, key, FALSE)
    IN [err |-> "nil", state |-> [dbState EXCEPT !.records = records, !.partialKeys = pk]]

DeleteRecord(schemaName, key, io) ==
  /\ steps < MaxSteps
  /\ io = NoFault \/ faults < MaxFaults
  /\ steps' = steps + 1
  /\ UNCHANGED <<currentDB, clock>>
  /\ LET res == deleteRecord(Cur, schemaName, key) IN
       IF res.err = "nil"
         THEN Flush("delete", schemaName, key, res.state, io)
         ELSE io = NoFault /\ Reject("delete", schemaName, key, res.err)

\* WipeDatabase that clears the records and the index but not the schemas
WipeDatabase_KeepSchemas(io) ==
  /\ steps < MaxSteps
  /\ io = NoFault \/ faults < MaxFaults
  /\ Flush("wipe", "", "", [Cur EXCEPT !.records = EmptyMap, !.partialKeys = EmptyMap], io)
  /\ steps' = steps + 1
  /\ UNCHANGED <<currentDB, clock>>

WipeDatabase(io) ==
  /\ steps < MaxSteps
  /\ io = NoFault \/ faults < MaxFaults
  /\ Flush("wipe", "", "", NewDatabaseState, io)
  /\ steps' = steps + 1
  /\ UNCHANGED <<currentDB, clock>>

\* getRecord that looks the key up as a prefix before it tries the exact key
getRecord_PartialFirst(dbState, schemaName, key, order) ==
  IF schemaName \notin DOMAIN dbState.schemas
    THEN [err |-> "NotFound", val |-> NoValue]
  ELSE
    LET partialMatches == getRecordsByPartialKey(dbState.partialKeys, schemaName, key, order) IN
      IF Len(partialMatches) = 1
           /\ partialMatches[1] \in DOMAIN Inner(dbState.records, schemaName)
        THEN [err |-> "nil", val |-> dbState.records[schemaName][partialMatches[1]]]
      ELSE IF Len(partialMatches) > 1
        THEN [err |-> "AmbiguousKey", val |-> partialMatches]
      ELSE IF key \in DOMAIN Inner(dbState.records, schemaName)
        THEN [err |-> "nil", val |-> dbState.records[schemaName][key]]
      ELSE [err |-> "NotFound", val |-> NoValue]

\* the value and error GetRecord returns on a database state; order: the
\* order in which Go ranges over the buckets
getRecord(dbState, schemaName, key, order) ==
  IF schemaName \notin DOMAIN dbState.schemas
    THEN [err |-> "NotFound", val |-> NoValue]
  ELSE IF key \in DOMAIN Inner(dbState.records, schemaName)
    THEN [err |-> "nil", val |-> dbState.records[schemaName][key]]
  ELSE
    LET partialMatches == getRecordsByPartialKey(dbState.partialKeys, schemaName, key, order) IN
      IF Len(partialMatches) = 1
           /\ partialMatches[1] \in DOMAIN Inner(dbState.records, schemaName)
        THEN [err |-> "nil", val |-> dbState.records[schemaName][partialMatches[1]]]
      ELSE IF Len(partialMatches) > 1
        THEN [err |-> "AmbiguousKey", val |-> partialMatches]
      ELSE [err |-> "NotFound", val |-> NoValue]

\* a read that makes the record map of the schema it is asked about
Read_Materialise(op, schema, arg, res) ==
  /\ steps < MaxSteps
  /\ steps' = steps + 1
  /\ last' = Outcome(op, schema, arg, res.err, res.val, FALSE, FALSE)
  /\ dbStates' = [dbStates EXCEPT ![currentDB].records =
                                   IF schema = "" THEN @ ELSE Put(@, schema, Inner(@, schema))]
  /\ UNCHANGED <<currentDB, files, dirs, clock, faults>>

\* a read: nothing changes but the record of the call
Read(op, schema, arg, res) ==
  /\ steps < MaxSteps
  /\ steps' = steps + 1
  /\ last' = Outcome(op, schema, arg, res.err, res.val, FALSE, FALSE)
  /\ UNCHANGED <<currentDB, dbStates, files, dirs, clock, faults>>

GetRecord(schemaName, key) ==
  \E order \in BucketOrders(Cur.partialKeys, schemaName) :
    Read("get", schemaName, key, getRecord(Cur, schemaName, key, order))

\* the value and error GetSchema returns on a database state
getSchema(dbState, name) ==
  IF name \in DOMAIN dbState.schemas
    THEN [err |-> "nil", val |-> dbState.schemas[name]]
    ELSE [err |-> "NotFound", val |-> NoValue]

GetSchema(name) == Read("getschema", name, "", getSchema(Cur, name))

\* the names ListSchemas returns, as a set
listSchemas(dbState) == [err |-> "nil", val |-> DOMAIN dbState.schemas]

ListSchemas == Read("schemas", "", "", listSchemas(Cur))

\* ListRecords returns the values in Go's map order; kept by key
listRecords(dbState, schemaName) ==
  IF schemaName \in DOMAIN dbState.schemas
    THEN [err |-> "nil", val |-> Inner(dbState.records, schemaName)]
    ELSE [err |-> "NotFound", val |-> NoValue]

ListRecords(schemaName) == Read("list", schemaName, "", listRecords(Cur, schemaName))

Next ==
  \/ \E io \in LoadIO : NewStorage(io) /\ Sequential
  \/ \E d \in DBNames, sio \in SaveIO, lio \in LoadIO : UseDB(d, sio, lio) /\ Sequential
  \/ \E n \in SchemaNames, f \in SchemaDefs, io \in SaveIO :
       CreateSchema(n, f, io) /\ Sequential
  \/ \E n \in SchemaNames, r \in RecordInputs, now \in clock..MaxClock, io \in SaveIO :
       AddRecord(n, r, now, io) /\ Sequential
  \/ \E n \in SchemaNames, k \in LookupKeys, io \in SaveIO :
       DeleteRecord(n, k, io) /\ Sequential
  \/ \E io \in SaveIO : WipeDatabase(io) /\ Sequential
  \/ \E n \in SchemaNames, k \in LookupKeys : GetRecord(n, k) /\ Sequential
  \/ \E n \in SchemaNames : GetSchema(n) /\ Sequential
  \/ ListSchemas /\ Sequential
  \/ \E n \in SchemaNames : ListRecords(n) /\ Sequential

Spec == Init /\ [][Next]_vars

\* the engine on files whose I/O never fails
NextReliable == Next /\ faults' = faults

SpecReliable == Init /\ [][NextReliable]_vars

\* the engine called with schema names other than the store's "__schemas__"
NextPlain == Next /\ last'.schema # SchemasEntry

SpecPlain == Init /\ [][NextPlain]_vars

----------------------------------------------------------------------------
(* One schema and the records added to it: the validator and the key       *)
(* extraction over field types and field sets                              *)

\* number of calls in a run that creates one schema and adds records
MaxRecordSteps == 3

RecordSchema == "Item"

\* the definitions passed to CreateSchema
RecordDefs ==
  {"v:string", "v:int", "v:integer", "v:float", "v:double", "v:bool", "v:boolean",
   "v:object", "v:json", "v:uuid", "v", "v:int w:string", "created_at:int",
   "junk v:int", "created_at:string"}

Fields3(f, v, g, w, h, x) == Put(Fields2(f, v, g, w), h, x)

\* the record data passed to AddRecord
RecordData ==
  { JsonObject(Fields2("name", JStr("a"), "v", JStr("x"))),
    JsonObject(Fields2("name", JStr("a"), "v", JNum(30))),
    JsonObject(Fields2("name", JStr("a"), "v", JNum(35))),
    JsonObject(Fields2("name", JStr("a"), "v", JBool(TRUE))),
    JsonObject(Fields2("name", JStr("a"), "v", JHuge)),
    JsonObject(Fields2("name", JStr("a"), "v", JNull)),
    JsonObject(Fields1("name", JStr("a"))),
    JsonObject(Fields2("name", JStr("a"), "w", JNum(30))),
    JsonObject(Fields3("id", JNum(70), "name", JStr("a"), "key", JStr("k"))),
    JsonObject(Fields2("name", JStr("b"), "key", JStr("k"))),
    JsonObject(Fields1("key", JBool(TRUE))),
    JsonObject(Fields1("v", JNum(30))),
    JsonObject(Fields2("id", JStr(""), "name", JStr("a"))),
    JsonObject(Fields1("created_at", JStr("mine"))),
    JsonObject(Fields2("name", JStr("a"), "created_at", JNum(30))) }

NextRecord ==
  /\ steps < MaxRecordSteps
  /\ \/ \E def \in RecordDefs :
          steps = 0 /\ CreateSchema(RecordSchema, def, NoFault) /\ Sequential
     \/ \E r \in RecordData, now \in clock..MaxClock :
          AddRecord(RecordSchema, r, now, NoFault) /\ Sequential

SpecRecord == Init /\ [][NextRecord]_vars

----------------------------------------------------------------------------
(* What the claims speak about *)

\* the keys of the records a database state holds for a schema
StoredKeys(dbState, schemaName) == DOMAIN Inner(dbState.records, schemaName)

\* the stored keys of a schema that start with key
PrefixMatches(dbState, schemaName, key) ==
  {k \in StoredKeys(dbState, schemaName) : HasPrefix(k, key)}

\* the keys a schema's index lists under a prefix
Indexed(dbState, schemaName, partialKey) ==
  Range(Bucket(Inner(dbState.partialKeys, schemaName), partialKey))

\* what the calls of the engine can show of a database state: its schema
\* definitions and, per schema, its records by key
View(schemas, records) ==
  [schemas |-> schemas, records |-> [n \in DOMAIN schemas |-> Inner(records, n)]]

MemView(dbState) == View(dbState.schemas, dbState.records)

\* what loading a file without an I/O failure shows
DiskView(file) == View(LoadSchemas(file, TRUE).schemas, LoadRecords(file, TRUE).records)

Mutating == {"schema", "add", "delete", "wipe"}

----------------------------------------------------------------------------
(* C1: in every reachable state of the current database, every key of a    *)
(* schema's record map is listed in the index bucket of its prefix, and    *)
(* every key listed in an index bucket is a key of that schema's record    *)
(* map.                                                                    *)
C1_IndexConsistency ==
  /\ \A n \in DOMAIN Cur.schemas : \A k \in StoredKeys(Cur, n) :
       k \in Indexed(Cur, n, getPartialKey(k))
  /\ \A n \in DOMAIN Cur.partialKeys : \A p \in DOMAIN Cur.partialKeys[n] :
       Indexed(Cur, n, p) \subseteq StoredKeys(Cur, n)

(* C2: GetRecord on an existing schema with a key that is stored returns   *)
(* the record stored under exactly that key, also when the key is a prefix *)
(* of other stored keys.                                                   *)
C2_ExactMatchWins ==
  (last.op = "get" /\ last.schema \in DOMAIN Cur.schemas
     /\ last.arg \in StoredKeys(Cur, last.schema))
  => (last.err = "nil" /\ last.val = Cur.records[last.schema][last.arg])

\* GetRecord was called with a stored key that is a proper prefix of
\* another stored key
C2_Witness ==
  /\ last.op = "get" /\ last.schema \in DOMAIN Cur.schemas
  /\ last.arg \in StoredKeys(Cur, last.schema)
  /\ \E k \in StoredKeys(Cur, last.schema) : k # last.arg /\ HasPrefix(k, last.arg)
  /\ last.err = "nil"

(* C3: when no record is stored under exactly the key, GetRecord resolves  *)
(* it as a prefix: NotFound when no stored key starts with it, the record  *)
(* when exactly one does, AmbiguousKey with exactly those keys when two or *)
(* more do.                                                                *)
C3_PrefixResolution ==
  (last.op = "get" /\ last.schema \in DOMAIN Cur.schemas
     /\ last.arg \notin StoredKeys(Cur, last.schema))
  => LET matches == PrefixMatches(Cur, last.schema, last.arg) IN
       /\ matches = {} => last.err = "NotFound"
       /\ Cardinality(matches) = 1 =>
            /\ last.err = "nil"
            /\ \A k \in matches : last.val = Cur.records[last.schema][k]
       /\ Cardinality(matches) >= 2 =>
            /\ last.err = "AmbiguousKey"
            /\ Len(last.val) = Cardinality(matches)
            /\ Range(last.val) = matches

(* C4: DeleteRecord with a key that is not itself a stored key of the      *)
(* schema returns NotFound, leaves records, index and files unchanged and  *)
(* does not call saveToPersistent.                                         *)
C4_DeleteExactOnly ==
  [][(last'.op = "delete" /\ last'.arg \notin StoredKeys(Cur, last'.schema))
       => (/\ last'.err = "NotFound"
           /\ ~last'.saved
           /\ dbStates' = dbStates
           /\ files' = files)]_vars

\* DeleteRecord was refused for a key that is the prefix of exactly one
\* stored key
C4_Witness ==
  /\ last.op = "delete" /\ last.err = "NotFound"
  /\ last.schema \in DOMAIN Cur.schemas
  /\ last.arg # "" /\ last.arg \notin StoredKeys(Cur, last.schema)
  /\ Cardinality(PrefixMatches(Cur, last.schema, last.arg)) = 1

(* C5: for every database that is not the current one, the file holds the  *)
(* schemas and records its in-memory state had when UseDB left it, so that *)
(* switching back shows every schema and record it had.                    *)
C5_FlushedBeforeSwitch ==
  \A d \in (DOMAIN dbStates) \ {currentDB} : DiskView(files[dbPath(d)]) = MemView(dbStates[d])

\* the record obj as AddRecord stamps it at clock reading n
Stamped(obj, n) ==
  Put(Put(obj, "created_at", JStr(TimeString(n))), "updated_at", JStr(TimeString(n)))

(* C6: when the flush fails during AddRecord, DeleteRecord or CreateSchema *)
(* the call returns the I/O error and the change it made in memory stays:  *)
(* the schema definition, the added record or the removal is what the      *)
(* engine then shows.                                                      *)
C6_FailedFlushKeepsMutation ==
  (last.op \in {"schema", "add", "delete"} /\ last.iofail)
  => /\ last.err = "IOError"
     /\ last.op = "schema" =>
          /\ last.schema \in DOMAIN Cur.schemas
          /\ Cur.schemas[last.schema] = Text(last.arg)
     /\ last.op = "add" =>
          \E k \in StoredKeys(Cur, last.schema) :
            /\ Cur.records[last.schema][k] = Json(Stamped(last.arg.obj, clock))
            /\ \A order \in BucketOrders(Cur.partialKeys, last.schema) :
                 getRecord(Cur, last.schema, k, order) =
                   [err |-> "nil", val |-> Json(Stamped(last.arg.obj, clock))]
     /\ last.op = "delete" =>
          /\ last.arg \notin StoredKeys(Cur, last.schema)
          /\ last.arg \notin Indexed(Cur, last.schema, getPartialKey(last.arg))

\* AddRecord failed on the flush and left the record in memory
C6_Witness ==
  /\ last.op = "add" /\ last.iofail /\ last.err = "IOError"
  /\ \E k \in StoredKeys(Cur, last.schema) :
       Cur.records[last.schema][k].obj["created_at"] = JStr(TimeString(clock))

(* C7: after AddRecord or DeleteRecord failed with an I/O error, the same  *)
(* call made again while file I/O works succeeds, leaves the keys in       *)
(* memory as one successful call does and brings the file in line with     *)
(* memory.                                                                 *)
C7_RetryIdempotent ==
  [][(/\ last.op \in {"add", "delete"} /\ last.err = "IOError"
      /\ last'.op = last.op /\ last'.schema = last.schema /\ last'.arg = last.arg
      /\ steps' = steps + 1 /\ ~last'.iofail)
       => (/\ last'.err = "nil"
           /\ StoredKeys(dbStates'[currentDB], last.schema) = StoredKeys(Cur, last.schema)
           /\ DiskView(files'[dbPath(currentDB)]) = MemView(dbStates'[currentDB]))]_vars

(* C8: whenever a load or a save fails during a call of the engine, the    *)
(* call returns an I/O error.                                              *)
C8_NoSwallowedIOError == last.iofail => last.err = "IOError"

(* C9: after CreateSchema, AddRecord, DeleteRecord or WipeDatabase returns *)
(* without error, loading the file of the current database yields the      *)
(* schema definitions and the records, per schema and key, held in memory. *)
C9_DiskMatchesMemory ==
  (last.op \in Mutating /\ last.err = "nil") => DiskView(files[dbPath(currentDB)]) = MemView(Cur)

\* what load returns for the snapshot saved onto file
RoundTrip(dbState, file) ==
  LET sv == saveToPersistent(dbState, file, NoFault) IN
    [err |-> sv.err \/ LoadRecords(sv.file, TRUE).err \/ LoadSchemas(sv.file, TRUE).err,
     schemas |-> LoadSchemas(sv.file, TRUE).schemas,
     records |-> LoadRecords(sv.file, TRUE).records]

(* C10: saving a snapshot and loading it back returns the same schema map  *)
(* and, for every schema name of the snapshot, the same records by key.    *)
C10_RoundTrip ==
  \A d \in DOMAIN dbStates :
    LET snapshot == dbStates[d]
        back == RoundTrip(snapshot, files[dbPath(d)])
        names == (DOMAIN snapshot.schemas) \cup ((DOMAIN snapshot.records) \ {SchemasEntry})
    IN /\ ~back.err
       /\ back.schemas = snapshot.schemas
       /\ \A n \in names : Inner(back.records, n) = Inner(snapshot.records, n)

(* C11: a flush of the current database that fails at any step leaves the  *)
(* file holding the complete previous snapshot: what the file loads as is  *)
(* what it loaded as before the call.                                      *)
C11_AtomicFlush ==
  [][(last'.op \in Mutating /\ last'.iofail /\ steps' = steps + 1)
       => DiskView(files'[dbPath(currentDB)]) = DiskView(files[dbPath(currentDB)])]_vars

(* C12: for every schema name CreateSchema accepted, after a successful    *)
(* CreateSchema or AddRecord the file loads with the schema definitions of *)
(* memory and with the records of that schema as memory holds them.        *)
C12_ReservedKeyNoCollision ==
  (last.op \in {"schema", "add"} /\ last.err = "nil")
  => /\ LoadSchemas(files[dbPath(currentDB)], TRUE).schemas = Cur.schemas
     /\ Inner(LoadRecords(files[dbPath(currentDB)], TRUE).records, last.schema)
          = Inner(Cur.records, last.schema)

\* the prefixes that have a bucket in a schema's index
Prefixes(partialKeys, schemaName) == DOMAIN Inner(partialKeys, schemaName)

\* the keys an index lists for a schema under a prefix, in order
KeyList(partialKeys, schemaName, partialKey) ==
  Bucket(Inner(partialKeys, schemaName), partialKey)

(* C13: the index kept by AddRecord and DeleteRecord lists, for every      *)
(* schema and prefix, each key once and exactly the keys that the index    *)
(* rebuildPartialKeyIndex builds from the current record maps lists (a     *)
(* bucket left empty counts as no bucket).                                 *)
C13_IndexConvergence ==
  \A rebuilt \in rebuildPartialKeyIndex(Cur.records) :
    \A n \in (DOMAIN Cur.partialKeys) \cup (DOMAIN rebuilt) :
      \A p \in Prefixes(Cur.partialKeys, n) \cup Prefixes(rebuilt, n) :
        /\ Range(KeyList(Cur.partialKeys, n, p)) = Range(KeyList(rebuilt, n, p))
        /\ Len(KeyList(Cur.partialKeys, n, p)) = Len(KeyList(rebuilt, n, p))

\* how often an index lists a key of a schema in the bucket of its prefix
TimesIndexed(dbState, schemaName, key) ==
  Len(SelectSeq(KeyList(dbState.partialKeys, schemaName, getPartialKey(key)),
                LAMBDA k : k = key))

(* C14: when AddRecord succeeds twice in a row on the same schema with the *)
(* same JSON, the second call adds no key: the schema holds the record of  *)
(* the second call under one key, the keys are those after the first call, *)
(* and the index lists that key once.                                      *)
C14_AddTwiceOneRecord ==
  [][(/\ last.op = "add" /\ last.err = "nil"
      /\ last'.op = "add" /\ last'.err = "nil"
      /\ last'.schema = last.schema /\ last'.arg = last.arg
      /\ steps' = steps + 1)
       => LET after == dbStates'[currentDB]
              record == Json(Stamped(last.arg.obj, clock'))
          IN /\ StoredKeys(after, last.schema) = StoredKeys(Cur, last.schema)
             /\ \E k \in StoredKeys(after, last.schema) :
                  /\ after.records[last.schema][k] = record
                  /\ TimesIndexed(after, last.schema, k) = 1]_vars

(* C15: after WipeDatabase the current database has no schema, no record   *)
(* and no index, GetRecord finds nothing under any schema, and when the    *)
(* call returned nil the file loads with no schema and no record.          *)
C15_WipeClearsAll ==
  last.op = "wipe"
  => /\ Cur = NewDatabaseState
     /\ \A n \in SchemaNames, k \in LookupKeys :
          getRecord(Cur, n, k, <<>>).err = "NotFound"
     /\ last.err = "nil" =>
          /\ LoadSchemas(files[dbPath(currentDB)], TRUE).schemas = EmptyMap
          /\ \A n \in DOMAIN LoadRecords(files[dbPath(currentDB)], TRUE).records :
               LoadRecords(files[dbPath(currentDB)], TRUE).records[n] = EmptyMap

\* WipeDatabase returned nil after a record had been accepted for stamping
C15_Witness ==
  /\ last.op = "wipe" /\ last.err = "nil"
  /\ clock = MaxClock
  /\ files[dbPath(currentDB)] = FileOf(Put(EmptyMap, SchemasEntry, EmptyMap))

Reads == {"get", "getschema", "schemas", "list"}

(* C16: one database is current; CreateSchema, AddRecord, DeleteRecord,    *)
(* WipeDatabase and the reads keep it current and leave the in-memory      *)
(* state and the file of every other database the engine has opened, each  *)
(* taken by its name, as they were; UseDB writes                           *)
(* no file but the one of the database it leaves, and the database it      *)
(* enters shows what its own file held before the call, so nothing written *)
(* while another database was current.                                     *)
C16_DatabaseIsolation ==
  [][/\ currentDB' \in DOMAIN dbStates'
     /\ (last'.op \in Mutating \cup Reads /\ steps' = steps + 1)
          => /\ currentDB' = currentDB
             /\ \A d \in (DOMAIN dbStates) \ {currentDB} :
                  /\ files'[dbPath(d)] = files[dbPath(d)]
                  /\ d \in DOMAIN dbStates' /\ dbStates'[d] = dbStates[d]
     /\ (last'.op = "use" /\ steps' = steps + 1)
          => /\ \A d \in (DOMAIN dbStates) \ {currentDB} :
                  files'[dbPath(d)] = files[dbPath(d)]
             /\ \A d \in (DOMAIN dbStates) \ {currentDB'} : dbStates'[d] = dbStates[d]
             /\ (~last'.iofail /\ currentDB' # currentDB) =>
                  MemView(dbStates'[currentDB']) = DiskView(files[dbPath(currentDB')])]_vars

(* C17: for a schema that exists and a record that parses, validation      *)
(* succeeds exactly when every field both declared by the schema and       *)
(* present in the record holds a value of the declared type: string a      *)
(* text, int / integer a whole number, float / double a number, bool /     *)
(* boolean true or false, any other type any value.                        *)
C17_ValidateIff ==
  (last.op = "add" /\ last.schema \in DOMAIN Cur.schemas /\ last.arg.valid)
  => LET fields == parseSchemaFields(Cur.schemas[last.schema])
         record == Stamped(last.arg.obj, clock)
         Whole(value) == (value.t = "number" /\ value.tenths % 10 = 0) \/ value.t = "huge"
         Holds(value, type) ==
           CASE type = "string" -> value.t = "string"
             [] type \in {"int", "integer"} -> Whole(value)
             [] type \in {"float", "double"} -> value.t \in {"number", "huge"}
             [] type \in {"bool", "boolean"} -> value.t = "bool"
             [] OTHER -> TRUE
     IN (last.err # "ValidationFailed")
          <=> \A f \in (DOMAIN fields) \cap (DOMAIN record) : Holds(record[f], fields[f])

(* C18: an AddRecord that returns NotFound, InvalidInput or                *)
(* ValidationFailed stores and replaces no record, leaves the index as it  *)
(* was and does not call saveToPersistent.                                 *)
C18_FailedAddChangesNothing ==
  [][(/\ last'.op = "add" /\ steps' = steps + 1
      /\ last'.err \in {"NotFound", "InvalidInput", "ValidationFailed"})
       => (dbStates' = dbStates /\ files' = files /\ ~last'.saved)]_vars

\* AddRecord refused a record on its types while the schema holds records
C18_Witness ==
  /\ last.op = "add" /\ last.err = "ValidationFailed"
  /\ StoredKeys(Cur, last.schema) # {}

\* the fields extractKeyFromRecord looks for, in order
KeyFields == <<"id", "name", "key">>

(* C19: a record that has one of the fields id, name, key and that         *)
(* AddRecord stores is stored under the value (as a string) of the first   *)
(* of id, name, key it has, and under no other new key.                    *)
C19_KeyPriority ==
  [][(/\ last'.op = "add" /\ steps' = steps + 1
      /\ last'.err \in {"nil", "IOError"}
      /\ \E i \in 1..Len(KeyFields) : KeyFields[i] \in DOMAIN last'.arg.obj)
       => LET obj == last'.arg.obj
              first == CHOOSE i \in 1..Len(KeyFields) :
                         /\ KeyFields[i] \in DOMAIN obj
                         /\ \A j \in 1..(i - 1) : KeyFields[j] \notin DOMAIN obj
              key == Sprintv(obj[KeyFields[first]])
              after == dbStates'[currentDB]
          IN /\ StoredKeys(after, last'.schema) = StoredKeys(Cur, last'.schema) \cup {key}
             /\ after.records[last'.schema][key] = Json(Stamped(obj, clock'))]_vars

\* a record with id, name and key is stored under its id, a number
C19_Witness ==
  /\ last.op = "add" /\ last.err = "nil"
  /\ {"id", "name", "key"} \subseteq DOMAIN last.arg.obj
  /\ last.arg.obj["id"].t = "number"
  /\ Sprintv(last.arg.obj["id"]) \in StoredKeys(Cur, last.schema)

\* the keys AddRecord can derive for a record stamped at clock reading n
DerivedKeys(obj, n) ==
  {DeriveKey(Stamped(obj, n), k) : k \in extractKeyFromRecord(Stamped(obj, n))}

(* C20: the key AddRecord derives depends on the record content alone: for *)
(* the record data of any AddRecord call, every call with that data, at    *)
(* any time, derives one and the same key.                                 *)
C20_DeterministicKey ==
  (last.op = "add" /\ last.arg.valid)
  => \A n1 \in 1..MaxClock, n2 \in 1..MaxClock :
       \A k1 \in DerivedKeys(last.arg.obj, n1), k2 \in DerivedKeys(last.arg.obj, n2) :
         k1 = k2

----------------------------------------------------------------------------
\* a record whose first field among id, name, key reads as the empty string
NoUsableKey(obj) ==
  \E i \in 1..Len(KeyFields) :
    /\ KeyFields[i] \in DOMAIN obj
    /\ \A j \in 1..(i - 1) : KeyFields[j] \notin DOMAIN obj
    /\ Sprintv(obj[KeyFields[i]]) = ""

(* C21: AddRecord on a record that has no usable key (the schema exists,   *)
(* the JSON parses and validates) returns KeyExtractionFailed; a call that *)
(* returns KeyExtractionFailed changes neither memory nor the file and     *)
(* does not flush; and no AddRecord call stores a record under the empty   *)
(* key.                                                                    *)
C21_EmptyKeyRefused ==
  [][(last'.op = "add" /\ steps' = steps + 1)
     => /\ (last'.err = "KeyExtractionFailed")
             => (dbStates' = dbStates /\ files' = files /\ ~last'.saved)
        /\ (/\ last'.err \notin {"NotFound", "InvalidInput", "ValidationFailed"}
            /\ NoUsableKey(last'.arg.obj))
             => last'.err = "KeyExtractionFailed"
        /\ "" \notin (StoredKeys(dbStates'[currentDB'], last'.schema)
                        \ StoredKeys(Cur, last'.schema))]_vars

C21_Witness ==
  /\ last.op = "add" /\ last.err = "KeyExtractionFailed"
  /\ NoUsableKey(last.arg.obj)
  /\ StoredKeys(Cur, last.schema) # {}
  /\ "" \notin StoredKeys(Cur, last.schema)

----------------------------------------------------------------------------
(* C23: UseDB returns no error for any database name and whatever the      *)
(* files do: after the call the name it was given is the current database, *)
(* and when that database has no file its schemas, records and index are   *)
(* empty.                                                                  *)
C23_UseNeverFails ==
  [][(last'.op = "use" /\ steps' = steps + 1)
     => /\ last'.err = "nil"
        /\ currentDB' = last'.arg
        /\ files'[dbPath(currentDB')] = NoFile
             => dbStates'[currentDB'] = NewDatabaseState]_vars

C23_Witness ==
  /\ last.op = "use" /\ last.arg = "other" /\ currentDB = "other"
  /\ files[dbPath("other")] = NoFile
  /\ Cur = NewDatabaseState
  /\ DOMAIN dbStates[DefaultDB].schemas # {}

----------------------------------------------------------------------------
(* C24: CreateSchema sets the definition of the one schema it names and    *)
(* leaves every other definition, every record map that exists and the     *)
(* whole index as they were; when the schema is new, the schema exists     *)
(* afterwards with an empty record map, so that ListRecords returns an     *)
(* empty list.                                                             *)
C24_CreateSchemaKeepsRecords ==
  [][(last'.op = "schema" /\ steps' = steps + 1)
     => LET name == last'.schema
            after == dbStates'[currentDB']
        IN /\ after.schemas = Put(Cur.schemas, name, Text(last'.arg))
           /\ \A n \in DOMAIN Cur.records :
                n \in DOMAIN after.records /\ after.records[n] = Cur.records[n]
           /\ after.partialKeys = Cur.partialKeys
           /\ name \notin DOMAIN Cur.schemas
                => (name \in DOMAIN after.records /\ after.records[name] = EmptyMap)]_vars

----------------------------------------------------------------------------
\* the stored keys the README's rule of partial key matching selects
ReadmeMatches(dbState, schemaName, key) ==
  IF Len(key) >= PartialKeyLen
    THEN {k \in StoredKeys(dbState, schemaName) :
            /\ Len(k) >= PartialKeyLen
            /\ SubSeq(k, 1, PartialKeyLen) = SubSeq(key, 1, PartialKeyLen)}
    ELSE {k \in StoredKeys(dbState, schemaName) : HasPrefix(k, key)}

(* C26: GetRecord on a non-empty key that is not stored resolves it as the *)
(* README says:                                                            *)
(* a key of 5 or more characters matches the stored keys with the          *)
(* same first 5 characters, a shorter key matches the stored keys that     *)
(* start with it; one match returns that record, several matches return    *)
(* the ambiguity error, no match returns not found.                        *)
C26_ReadmeMatching ==
  (/\ last.op = "get"
   /\ last.schema \in DOMAIN Cur.schemas
   /\ last.arg # ""
   /\ last.arg \notin StoredKeys(Cur, last.schema))
  => LET matches == ReadmeMatches(Cur, last.schema, last.arg) IN
       /\ Cardinality(matches) = 1
            => (last.err = "nil" /\ \A k \in matches : last.val = Cur.records[last.schema][k])
       /\ Cardinality(matches) > 1 => last.err = "AmbiguousKey"
       /\ matches = {} => last.err = "NotFound"

----------------------------------------------------------------------------
\* the index of a schema agrees with its record map: each stored key is
\* listed once, in the bucket of its prefix, and nothing else is listed
IndexConsistent(dbState, schemaName) ==
  /\ \A k \in StoredKeys(dbState, schemaName) : TimesIndexed(dbState, schemaName, k) = 1
  /\ \A p \in Prefixes(dbState.partialKeys, schemaName) :
       LET bucket == KeyList(dbState.partialKeys, schemaName, p) IN
         \A i \in 1..Len(bucket) :
           /\ bucket[i] \in StoredKeys(dbState, schemaName)
           /\ getPartialKey(bucket[i]) = p

(* C27: on every schema whose index agrees with its record map, and for    *)
(* every non-empty partial key, getRecordsByPartialKey returns the stored  *)
(* keys that start with the partial key, all of them, each once and        *)
(* nothing else, whether the partial key has 5 characters or more (one     *)
(* bucket) or fewer (all buckets whose name is a prefix of it or starts    *)
(* with it), in whatever order the buckets are visited.                    *)
C27_LookupIsLiteralPrefix ==
  \A n \in SchemaNames :
    IndexConsistent(Cur, n)
    => \A p \in LookupKeys \ {""} : \A order \in BucketOrders(Cur.partialKeys, n) :
         LET matches == getRecordsByPartialKey(Cur.partialKeys, n, p, order) IN
           /\ Range(matches) = PrefixMatches(Cur, n, p)
           /\ Len(matches) = Cardinality(Range(matches))

C27_Witness ==
  /\ IndexConsistent(Cur, "User")
  /\ last.op = "get" /\ last.schema = "User" /\ last.arg = "Al"
  /\ last.err = "AmbiguousKey"
  /\ Range(last.val) = {"Ali", "Alices"}
  /\ \E order \in BucketOrders(Cur.partialKeys, "User") :
       getRecordsByPartialKey(Cur.partialKeys, "User", "Alices", order) = <<"Alices">>

----------------------------------------------------------------------------
(* C29: in every database the engine holds, no bucket of the index lists   *)
(* the same full key twice, after any adds, adds of a key that is stored   *)
(* already, deletes and loads.                                             *)
C29_NoDuplicateInBucket ==
  \A d \in DOMAIN dbStates : \A n \in DOMAIN dbStates[d].partialKeys :
    \A p \in DOMAIN dbStates[d].partialKeys[n] :
      LET bucket == dbStates[d].partialKeys[n][p] IN
        \A i \in 1..Len(bucket), j \in 1..Len(bucket) : bucket[i] = bucket[j] => i = j

C29_Witness ==
  /\ last.op = "new"
  /\ Len(KeyList(Cur.partialKeys, "User", "Alice")) = 2
  /\ TimesIndexed(Cur, "User", "Alice") = 1
  /\ TimesIndexed(Cur, "User", "Alices") = 1

----------------------------------------------------------------------------
(* C30: a schema a database holds stays: whatever call comes next, other   *)
(* than WipeDatabase (and a restart of the process), every database still  *)
(* holds every schema it held, so that GetSchema keeps succeeding after    *)
(* adds, deletes, other CreateSchema calls and UseDB away and back.        *)
C30_SchemasStay ==
  [][(steps' = steps + 1 /\ last'.op \notin {"wipe", "new"})
     => \A d \in DOMAIN dbStates : \A n \in DOMAIN dbStates[d].schemas :
          d \in DOMAIN dbStates' /\ n \in DOMAIN dbStates'[d].schemas]_vars

----------------------------------------------------------------------------
(* The engine with the history of deleted keys *)

\* the keys passed to DeleteRecord and GetRecord
DeletedKeys == {"Alice", "Alices", "Al", SchemasEntry}

DeletedRecords ==
  { JsonObject(Fields1("name", JStr("Alice"))),
    JsonObject(Fields1("name", JStr("Alices"))),
    JsonObject(Fields1("name", JStr(SchemasEntry))) }

\* the history after a call: a key DeleteRecord removed without error is
\* deleted in its database and schema until AddRecord stores it again
Remember ==
  /\ deleted' =
       IF last'.op = "delete" /\ last'.err = "nil"
         THEN deleted \cup {<<currentDB, last'.schema, last'.arg>>}
       ELSE IF last'.op = "add" /\ last'.saved
         THEN {t \in deleted :
                 ~(/\ t[1] = currentDB /\ t[2] = last'.schema
                   /\ \E n \in 1..MaxClock : t[3] \in DerivedKeys(last'.arg.obj, n))}
       ELSE deleted
  /\ UNCHANGED <<mutex, calls, process, lsm, written>>

NextDeleted ==
  \/ \E io \in LoadIO : NewStorage(io) /\ Remember
  \/ \E d \in DBNames, sio \in SaveIO, lio \in LoadIO : UseDB(d, sio, lio) /\ Remember
  \/ \E n \in SchemaNames, io \in SaveIO :
       CreateSchema(n, "name:string age:int", io) /\ Remember
  \/ \E n \in SchemaNames, r \in DeletedRecords, now \in clock..MaxClock, io \in SaveIO :
       AddRecord(n, r, now, io) /\ Remember
  \/ \E n \in SchemaNames, k \in DeletedKeys, io \in SaveIO :
       DeleteRecord(n, k, io) /\ Remember
  \/ \E n \in SchemaNames, k \in DeletedKeys : GetRecord(n, k) /\ Remember

SpecDeleted == Init /\ [][NextDeleted]_vars

\* the history on files whose I/O never fails
NextDeletedReliable == NextDeleted /\ faults' = faults

SpecDeletedReliable == Init /\ [][NextDeletedReliable]_vars

\* the history with calls that name no schema "__schemas__"
NextDeletedPlain == NextDeleted /\ last'.schema # SchemasEntry

SpecDeletedPlain == Init /\ [][NextDeletedPlain]_vars

(* C28: a key that DeleteRecord removed without error and that no          *)
(* AddRecord has stored since is, whenever its database is the current     *)
(* one, neither a key of its schema's record map nor listed in any bucket  *)
(* of its schema's index, so that GetRecord cannot return its record, and  *)
(* it is not among the keys GetRecord names in an ambiguity error; this    *)
(* also after saves and loads.                                             *)
C28_DeletedStaysGone ==
  \A t \in deleted :
    t[1] = currentDB
    => /\ t[3] \notin StoredKeys(Cur, t[2])
       /\ \A p \in Prefixes(Cur.partialKeys, t[2]) : t[3] \notin Indexed(Cur, t[2], p)
       /\ (last.op = "get" /\ last.schema = t[2] /\ last.err = "AmbiguousKey")
            => t[3] \notin Range(last.val)

----------------------------------------------------------------------------
(* The command-line program (src/main.go): one process per command *)

RECURSIVE ToLower(_)
\* strings.ToLower for the letters A to Z
ToLower(s) ==
  IF s = "" THEN ""
  ELSE LET i == IndexOf("ABCDEFGHIJKLMNOPQRSTUVWXYZ", SubSeq(s, 1, 1), 1) IN
    (IF i = 0 THEN SubSeq(s, 1, 1) ELSE SubSeq("abcdefghijklmnopqrstuvwxyz", i, i))
    \o ToLower(SubSeq(s, 2, Len(s)))

RECURSIVE Join(_, _)
\* strings.Join(elems, sep)
Join(elems, sep) ==
  IF elems = <<>> THEN ""
  ELSE IF Len(elems) = 1 THEN elems[1]
  ELSE elems[1] \o sep \o Join(Tail(elems), sep)

\* ParseCommand: the arguments it returns, or an error
ParseCommand(command, args) ==
  CASE command = "add" ->
         IF Len(args) < 2 THEN [err |-> TRUE] ELSE [err |-> FALSE, args |-> args]
    [] command \in {"get", "view", "delete"} ->
         IF Len(args) < 2 THEN [err |-> TRUE] ELSE [err |-> FALSE, args |-> args]
    [] command = "list" ->
         IF Len(args) < 1 THEN [err |-> TRUE] ELSE [err |-> FALSE, args |-> args]
    [] command = "schema" -> [err |-> FALSE, args |-> args]
    [] command \in {"wipe", "drop"} -> [err |-> FALSE, args |-> args]
    [] OTHER -> [err |-> TRUE]

\* json.Unmarshal into a map, for the record texts given on the command line
Unmarshal(recordData) ==
  CASE recordData = "{\"name\":\"Alice\",\"age\":30}" ->
         JsonObject(Fields2("name", JStr("Alice"), "age", JNum(300)))
    [] recordData = "{\"name\":\"Alices\"}" ->
         JsonObject(Fields1("name", JStr("Alices")))
    [] recordData = "{\"name\":\"Bob\",\"age\":30.5}" ->
         JsonObject(Fields2("name", JStr("Bob"), "age", JNum(305)))
    [] OTHER -> BadJson

\* os.Args[1:] of the processes
Argvs ==
  { <<>>,
    <<"schema">>, <<"schema", "User">>, <<"schema", "User", "name:string", "age:int">>,
    <<"add", "User">>,
    <<"add", "User", "{\"name\":\"Alice\",\"age\":30}">>,
    <<"add", "User", "{\"name\":\"Alices\"}">>,
    <<"add", "User", "{\"name\":\"Bob\",\"age\":30.5}">>,
    <<"add", "User", "{\"name\":">>,
    <<"get", "User", "Alice">>, <<"VIEW", "User", "Al">>, <<"get", "User">>,
    <<"delete", "User", "Alice">>,
    <<"list", "User">>, <<"list">>,
    <<"use", "other">>, <<"use">>, <<"dbs">>,
    <<"wipe">>, <<"drop">>, <<"status">> }

\* ListDBs: the names of the directories ReadDir finds in the directory of
\* the stores (ReadDir returns them sorted by name; kept as a set), or the
\* error of ReadDir.  It takes no lock.
ListDBs(readDirOk) ==
  /\ steps < MaxSteps
  /\ readDirOk \/ faults < MaxFaults
  /\ steps' = steps + 1
  /\ faults' = IF readDirOk THEN faults ELSE faults + 1
  /\ last' = IF readDirOk
               THEN Outcome("dbs", "", "", "nil",
                            {path[1] : path \in {d \in dirs : Len(d) = 1 /\ d[1] # ".."}},
                            FALSE, FALSE)
               ELSE Outcome("dbs", "", "", "IOError", NoValue, FALSE, TRUE)
  /\ UNCHANGED <<currentDB, dbStates, files, dirs, clock>>

\* os.Exit(code), or the return of main with code 0
Exit(code) ==
  process' = [state |-> "exited", argv |-> process.argv, exit |-> code]

\* main exits before it calls the engine
NoDispatch ==
  /\ steps' = steps + 1
  /\ UNCHANGED <<currentDB, dbStates, files, dirs, clock, faults, last>>

\* main up to NewStorage: without a command it prints the usage and exits;
\* with one it makes the engine, whose load can fail as in NewStorage
MainStart(argv, io) ==
  /\ process.state # "running"
  /\ steps < MaxSteps
  /\ IF Len(argv) < 1
       THEN /\ io = NoLoadFault
            /\ process' = [state |-> "exited", argv |-> argv, exit |-> 1]
            /\ NoDispatch
     ELSE LET ld == loadFromPersistent(NewDatabaseState, files[dbPath(DefaultDB)], io) IN
       /\ io = NoLoadFault \/ faults < MaxFaults
       /\ RealLoadFault(dirs, DefaultDB, FALSE, ld.failed, io)
       /\ \E state \in ld.states : dbStates' = Put(EmptyMap, DefaultDB, state)
       /\ currentDB' = DefaultDB
       /\ faults' = IF ld.failed \/ ~io.mk THEN faults + 1 ELSE faults
       /\ last' = Outcome("new", "", "", "nil", NoValue, FALSE, ld.failed \/ ~io.mk)
       /\ process' = [state |-> "running", argv |-> argv]
       /\ dirs' = getOrCreateStore(dirs, DefaultDB, FALSE, io.mk)
       /\ UNCHANGED <<files, clock, steps>>
  /\ UNCHANGED <<mutex, calls, deleted, lsm, written>>

\* main from ParseCommand on: the switch over the command
MainDispatch ==
  /\ process.state = "running"
  /\ LET command == ToLower(process.argv[1])
         parsed == ParseCommand(command, Tail(process.argv))
     IN IF parsed.err THEN NoDispatch /\ Exit(1)
        ELSE LET parsedArgs == parsed.args IN
          CASE command = "add" ->
                 IF Len(parsedArgs) < 2 THEN NoDispatch /\ Exit(1)
                 ELSE \E now \in clock..MaxClock, io \in SaveIO :
                   /\ AddRecord(parsedArgs[1], Unmarshal(parsedArgs[2]), now, io)
                   /\ Exit(IF last'.err # "nil" THEN 1 ELSE 0)
            [] command \in {"get", "view"} ->
                 IF Len(parsedArgs) < 2 THEN NoDispatch /\ Exit(1)
                 ELSE /\ GetRecord(parsedArgs[1], parsedArgs[2])
                      /\ Exit(IF last'.err # "nil" THEN 1 ELSE 0)
            [] command = "delete" ->
                 IF Len(parsedArgs) < 2 THEN NoDispatch /\ Exit(1)
                 ELSE \E io \in SaveIO :
                   /\ DeleteRecord(parsedArgs[1], parsedArgs[2], io)
                   /\ Exit(IF last'.err # "nil" THEN 1 ELSE 0)
            [] command = "list" ->
                 IF Len(parsedArgs) < 1 THEN NoDispatch /\ Exit(1)
                 ELSE /\ ListRecords(parsedArgs[1])
                      /\ Exit(IF last'.err # "nil" THEN 1 ELSE 0)
            [] command = "schema" ->
                 IF Len(parsedArgs) < 1 THEN ListSchemas /\ Exit(0)
                 ELSE IF Len(parsedArgs) = 1
                   THEN /\ GetSchema(parsedArgs[1])
                        /\ Exit(IF last'.err # "nil" THEN 1 ELSE 0)
                 ELSE \E io \in SaveIO :
                   /\ CreateSchema(parsedArgs[1], Join(Tail(parsedArgs), " "), io)
                   /\ Exit(IF last'.err # "nil" THEN 1 ELSE 0)
            [] command = "use" ->
                 IF Len(parsedArgs) < 1 THEN NoDispatch /\ Exit(1)
                 ELSE \E sio \in SaveIO, lio \in LoadIO :
                   UseDB(parsedArgs[1], sio, lio) /\ Exit(0)
            [] command = "dbs" ->
                 /\ \E readDirOk \in BOOLEAN : ListDBs(readDirOk)
                 /\ Exit(IF last'.err # "nil" THEN 1 ELSE 0)
            [] command \in {"wipe", "drop"} ->
                 \E io \in SaveIO :
                   /\ WipeDatabase(io)
                   /\ Exit(IF last'.err # "nil" THEN 1 ELSE 0)
            [] OTHER -> NoDispatch /\ Exit(1)
  /\ UNCHANGED <<mutex, calls, deleted, lsm, written>>

NextCLI ==
  \/ \E argv \in Argvs, io \in LoadIO : MainStart(argv, io)
  \/ MainDispatch

SpecCLI == Init /\ [][NextCLI]_vars

\* the commands of the documented surface
Documented ==
  {"schema", "add", "get", "view", "delete", "list", "use", "dbs", "wipe", "drop"}

\* the command has the arguments its usage line asks for
EnoughArgs(command, n) ==
  CASE command \in {"add", "get", "view", "delete"} -> n >= 2
    [] command \in {"list", "use"} -> n >= 1
    [] OTHER -> TRUE

\* the engine operation of a command, by the name the model gives its calls
EngineOp(command, n) ==
  CASE command = "schema" -> IF n = 0 THEN "schemas" ELSE IF n = 1 THEN "getschema" ELSE "schema"
    [] command \in {"get", "view"} -> "get"
    [] command \in {"wipe", "drop"} -> "wipe"
    [] OTHER -> command

(* C25: a process started with a documented command (schema, add, get,     *)
(* view, delete, list, use, dbs, wipe, drop) and enough arguments calls    *)
(* the engine operation of that command, and it exits with code 0 when     *)
(* the operation returned no error and with code 1 when it returned one.   *)
C25_DispatchAndExitCode ==
  [][(/\ process.state = "running" /\ process'.state = "exited"
      /\ process.argv[1] \in Documented
      /\ EnoughArgs(process.argv[1], Len(process.argv) - 1))
     => /\ steps' = steps + 1
        /\ last'.op = EngineOp(process.argv[1], Len(process.argv) - 1)
        /\ process'.exit = 0 <=> last'.err = "nil"]_vars

----------------------------------------------------------------------------
(* The engine called by several goroutines: each call takes s.mutex in its *)
(* first statement and releases it, by defer, when it returns.  A call     *)
(* goes through the statements of its handler one step at a time:          *)
(*   wait    at s.mutex.Lock() or s.mutex.RLock()                          *)
(*   locked  the mutex is held, the body has not started                   *)
(*   index   the schema and record maps are written, the index is not      *)
(*   flush   memory is written, saveToPersistent has not run               *)
(*   switch  UseDB has saved the database it leaves                        *)
(*   load    UseDB has set currentDB, loadFromPersistent has not run       *)
(*   unlock  the body is done, the deferred unlock has not run             *)

\* number of calls made by the goroutines together
MaxCalls == 4

\* the calls the goroutines make
ConcurrentCalls ==
  { [op |-> "schema", schema |-> "User", arg |-> "name:string age:int"],
    [op |-> "add", schema |-> "User", arg |-> "{\"name\":\"Alice\",\"age\":30}"],
    [op |-> "delete", schema |-> "User", arg |-> "Alice"],
    [op |-> "use", schema |-> "", arg |-> "other"],
    [op |-> "wipe", schema |-> "", arg |-> ""],
    [op |-> "get", schema |-> "User", arg |-> "Al"],
    [op |-> "getschema", schema |-> "User", arg |-> ""],
    [op |-> "schemas", schema |-> "", arg |-> ""],
    [op |-> "list", schema |-> "User", arg |-> ""] }

\* LockKind that gives every handler the shared lock
LockKind_AllShared(op) == "RLock"

\* the lock a handler takes: s.mutex.RLock() in GetSchema, ListSchemas,
\* GetRecord and ListRecords, s.mutex.Lock() in the others
LockKind(op) ==
  IF op \in {"get", "getschema", "schemas", "list"} THEN "RLock" ELSE "Lock"

\* the goroutine is between taking the mutex and releasing it
Holding(g) == calls[g].pc \notin {"idle", "wait"}

\* a step of a goroutine leaves the command-line process and the history alone
Concurrent == UNCHANGED <<process, deleted, lsm, written>>

\* a goroutine calls a handler and reaches its first statement
Call(g, c) ==
  /\ calls[g].pc = "idle"
  /\ steps + Cardinality({h \in Goroutines : calls[h].pc # "idle"}) < MaxCalls
  /\ calls' = [calls EXCEPT ![g] = [pc |-> "wait", op |-> c.op, schema |-> c.schema,
                                    arg |-> c.arg, err |-> "nil", val |-> NoValue,
                                    saved |-> FALSE, iofail |-> FALSE]]
  /\ UNCHANGED <<currentDB, dbStates, files, dirs, clock, steps, faults, last, mutex>>
  /\ Concurrent

\* s.mutex.Lock() returns: no goroutine holds the mutex
Lock(g) ==
  /\ calls[g].pc = "wait"
  /\ LockKind(calls[g].op) = "Lock"
  /\ ~mutex.writer /\ mutex.readers = 0
  /\ mutex' = [mutex EXCEPT !.writer = TRUE]
  /\ calls' = [calls EXCEPT ![g].pc = "locked"]
  /\ UNCHANGED <<currentDB, dbStates, files, dirs, clock, steps, faults, last>>
  /\ Concurrent

\* s.mutex.RLock() returns: no writer holds the mutex
RLock(g) ==
  /\ calls[g].pc = "wait"
  /\ LockKind(calls[g].op) = "RLock"
  /\ ~mutex.writer
  /\ mutex' = [mutex EXCEPT !.readers = @ + 1]
  /\ calls' = [calls EXCEPT ![g].pc = "locked"]
  /\ UNCHANGED <<currentDB, dbStates, files, dirs, clock, steps, faults, last>>
  /\ Concurrent

\* the results the body of a mutating handler can come to before its flush
Body(c, dbState, now) ==
  CASE c.op = "schema" ->
         {[err |-> "nil", state |-> createSchema(dbState, c.schema, c.arg), timed |-> FALSE]}
    [] c.op = "add" -> addRecord(dbState, c.schema, Unmarshal(c.arg), now)
    [] c.op = "delete" ->
         {[err |-> deleteRecord(dbState, c.schema, c.arg).err,
           state |-> deleteRecord(dbState, c.schema, c.arg).state, timed |-> FALSE]}
    [] c.op = "wipe" -> {[err |-> "nil", state |-> NewDatabaseState, timed |-> FALSE]}

\* CreateSchema, AddRecord, DeleteRecord, WipeDatabase: the checks, then the
\* writes of the schema and record maps; the index is written next
Store(g) ==
  /\ calls[g].pc = "locked"
  /\ calls[g].op \in Mutating
  /\ \E now \in clock..MaxClock : \E res \in Body(calls[g], Cur, now) :
       /\ IF res.timed THEN clock' = now ELSE now = clock /\ UNCHANGED clock
       /\ IF res.err = "nil"
            THEN /\ dbStates' = [dbStates EXCEPT ![currentDB] =
                                   [Cur EXCEPT !.schemas = res.state.schemas,
                                               !.records = res.state.records]]
                 /\ calls' = [calls EXCEPT ![g] =
                                [pc |-> "index", op |-> calls[g].op,
                                 schema |-> calls[g].schema, arg |-> calls[g].arg,
                                 err |-> "nil", val |-> NoValue, saved |-> FALSE,
                                 iofail |-> FALSE,
                                 partialKeys |-> res.state.partialKeys]]
            ELSE /\ calls' = [calls EXCEPT ![g].pc = "unlock", ![g].err = res.err]
                 /\ UNCHANGED dbStates
  /\ UNCHANGED <<currentDB, files, dirs, steps, faults, last, mutex>>
  /\ Concurrent

\* updatePartialKeyIndex (or the reset of the index by WipeDatabase)
Index(g) ==
  /\ calls[g].pc = "index"
  /\ dbStates' = [dbStates EXCEPT ![currentDB].partialKeys = calls[g].partialKeys]
  /\ calls' = [calls EXCEPT ![g].pc = "flush"]
  /\ UNCHANGED <<currentDB, files, dirs, clock, steps, faults, last, mutex>>
  /\ Concurrent

\* a step of file I/O of the call of g fails: the call is counted once
\* among the calls with an I/O failure
FailIn(g, failed) ==
  /\ calls[g].iofail \/ ~failed \/ faults < MaxFaults
  /\ faults' = IF failed /\ ~calls[g].iofail THEN faults + 1 ELSE faults

\* return s.saveToPersistent()
FlushStep(g, io) ==
  /\ calls[g].pc = "flush"
  /\ LET sv == saveToPersistent(Cur, files[dbPath(currentDB)], io) IN
       /\ io = NoFault \/ sv.err
       /\ FailIn(g, sv.err)
       /\ files' = [files EXCEPT ![dbPath(currentDB)] = sv.file]
       /\ dirs' \in SaveDirs(dirs, currentDB, io.w1)
       /\ calls' = [calls EXCEPT ![g].pc = "unlock", ![g].saved = TRUE,
                                 ![g].err = IF sv.err THEN "IOError" ELSE "nil",
                                 ![g].iofail = sv.err]
  /\ UNCHANGED <<currentDB, dbStates, clock, steps, last, mutex>>
  /\ Concurrent

\* UseDB, line 635: s.saveToPersistent(), whose error is dropped
SwitchSave(g, io) ==
  /\ calls[g].pc = "locked"
  /\ calls[g].op = "use"
  /\ LET sv == saveToPersistent(Cur, files[dbPath(currentDB)], io) IN
       /\ io = NoFault \/ sv.err
       /\ FailIn(g, sv.err)
       /\ files' = [files EXCEPT ![dbPath(currentDB)] = sv.file]
       /\ dirs' \in SaveDirs(dirs, currentDB, io.w1)
       /\ calls' = [calls EXCEPT ![g].pc = "switch", ![g].saved = TRUE,
                                 ![g].iofail = sv.err]
  /\ UNCHANGED <<currentDB, dbStates, clock, steps, last, mutex>>
  /\ Concurrent

\* UseDB, line 638: s.currentDB = dbName; cached: the database has a store
\* in s.stores
SwitchSet(g) ==
  /\ calls[g].pc = "switch"
  /\ currentDB' = calls[g].arg
  /\ dbStates' = getDBState(dbStates, calls[g].arg)
  /\ calls' = [calls EXCEPT ![g] =
                 [pc |-> "load", op |-> calls[g].op, schema |-> calls[g].schema,
                  arg |-> calls[g].arg, err |-> calls[g].err, val |-> calls[g].val,
                  saved |-> calls[g].saved, iofail |-> calls[g].iofail,
                  cached |-> calls[g].arg \in DOMAIN dbStates]]
  /\ UNCHANGED <<files, dirs, clock, steps, faults, last, mutex>>
  /\ Concurrent

\* UseDB, line 639: s.loadFromPersistent()
SwitchLoad(g, io) ==
  /\ calls[g].pc = "load"
  /\ LET ld == loadFromPersistent(Cur, files[dbPath(currentDB)], io) IN
       /\ RealLoadFault(dirs, currentDB, calls[g].cached, ld.failed, io)
       /\ FailIn(g, ld.failed \/ ~io.mk)
       /\ \E state \in ld.states :
            dbStates' = [dbStates EXCEPT ![currentDB] = state]
       /\ dirs' = getOrCreateStore(dirs, currentDB, calls[g].cached, io.mk)
       /\ calls' = [calls EXCEPT ![g].pc = "unlock",
                                 ![g].iofail = @ \/ ld.failed \/ ~io.mk]
  /\ UNCHANGED <<currentDB, files, clock, steps, last, mutex>>
  /\ Concurrent

\* the body of GetRecord, GetSchema, ListSchemas or ListRecords
ReadStep(g) ==
  /\ calls[g].pc = "locked"
  /\ calls[g].op \in Reads
  /\ \E order \in BucketOrders(Cur.partialKeys, calls[g].schema) :
       LET res == CASE calls[g].op = "get" ->
                         getRecord(Cur, calls[g].schema, calls[g].arg, order)
                    [] calls[g].op = "getschema" -> getSchema(Cur, calls[g].schema)
                    [] calls[g].op = "schemas" -> listSchemas(Cur)
                    [] calls[g].op = "list" -> listRecords(Cur, calls[g].schema)
       IN calls' = [calls EXCEPT ![g].pc = "unlock", ![g].err = res.err, ![g].val = res.val]
  /\ UNCHANGED <<currentDB, dbStates, files, dirs, clock, steps, faults, last, mutex>>
  /\ Concurrent

\* the deferred s.mutex.Unlock() or s.mutex.RUnlock(); the call returns
Unlock(g) ==
  /\ calls[g].pc = "unlock"
  /\ mutex' = IF LockKind(calls[g].op) = "Lock"
                THEN [mutex EXCEPT !.writer = FALSE]
                ELSE [mutex EXCEPT !.readers = @ - 1]
  /\ calls' = [calls EXCEPT ![g] = NoCall]
  /\ last' = Outcome(calls[g].op, calls[g].schema,
                     IF calls[g].op = "add" THEN Unmarshal(calls[g].arg) ELSE calls[g].arg,
                     calls[g].err, calls[g].val, calls[g].saved, calls[g].iofail)
  /\ steps' = steps + 1
  /\ UNCHANGED <<currentDB, dbStates, files, dirs, clock, faults>>
  /\ Concurrent

NextConcurrent ==
  \/ \E g \in Goroutines, c \in ConcurrentCalls : Call(g, c)
  \/ \E g \in Goroutines : Lock(g)
  \/ \E g \in Goroutines : RLock(g)
  \/ \E g \in Goroutines : Store(g)
  \/ \E g \in Goroutines : Index(g)
  \/ \E g \in Goroutines, io \in SaveIO : FlushStep(g, io)
  \/ \E g \in Goroutines, io \in SaveIO : SwitchSave(g, io)
  \/ \E g \in Goroutines : SwitchSet(g)
  \/ \E g \in Goroutines, io \in LoadIO : SwitchLoad(g, io)
  \/ \E g \in Goroutines : ReadStep(g)
  \/ \E g \in Goroutines : Unlock(g)

SpecConcurrent == Init /\ [][NextConcurrent]_vars

(* C22: while a goroutine is inside CreateSchema, AddRecord, DeleteRecord, *)
(* UseDB or WipeDatabase, from its lock to its unlock (its checks, its     *)
(* writes of memory and its flush included), no other goroutine is inside  *)
(* any call: two calls are under way together only when both are reads.    *)
(* The memory, the current database and the files change only in steps of  *)
(* the goroutine that holds the mutex as writer.                           *)
C22_ExclusiveMutation ==
  [][/\ \A g \in Goroutines : \A h \in Goroutines \ {g} :
          (Holding(g)' /\ calls'[g].op \notin Reads) => ~Holding(h)'
     /\ (<<currentDB, dbStates, files>>' # <<currentDB, dbStates, files>>)
          => \E g \in Goroutines :
               /\ Holding(g) /\ calls[g].op \notin Reads /\ mutex.writer
               /\ calls'[g] # calls[g]
               /\ \A h \in Goroutines \ {g} : ~Holding(h) /\ calls'[h] = calls[h]]_vars

C22_Witness ==
  \E g \in Goroutines : \E h \in Goroutines \ {g} :
    /\ calls[g].pc = "index" /\ calls[g].op = "add"
    /\ calls[h].pc = "wait" /\ calls[h].op = "get"
    /\ "Alice" \in StoredKeys(Cur, "User")
    /\ "Alice" \notin Indexed(Cur, "User", "Alice")
    /\ mutex.writer

----------------------------------------------------------------------------
(* C31: for a field declared int or integer and present in a record that  *)
(* parses, AddRecord passes the type check exactly when the value is a     *)
(* number with no fractional part: 30 and 30.0 pass, 30.5 fails, and a     *)
(* text, a boolean or null fails.                                          *)

C31_IntAcceptsWholeNumbers ==
  (last.op = "add" /\ last.schema \in DOMAIN Cur.schemas /\ last.arg.valid)
  => LET record == Stamped(last.arg.obj, clock)
         fields == parseSchemaFields(Cur.schemas[last.schema])
         common == (DOMAIN fields) \cap (DOMAIN record)
         ints == {f \in common : fields[f] \in {"int", "integer"}}
         \* a number with no fractional part, 1e19 included
         WholeNumber(value) ==
           (value.t = "number" /\ value.tenths % 10 = 0) \/ value.t = "huge"
     IN /\ (\E f \in ints : ~WholeNumber(record[f])) => last.err = "ValidationFailed"
        /\ (ints = common /\ \A f \in ints : WholeNumber(record[f]))
             => last.err # "ValidationFailed"

----------------------------------------------------------------------------
(* C32: schema definitions are read permissively.  CreateSchema stores any *)
(* definition and returns nil, a part without a colon included; on         *)
(* AddRecord every part of the form field:type of the definition is        *)
(* enforced, whatever other parts stand beside it: a present field whose   *)
(* value is not of the declared type fails validation; and a record whose  *)
(* declared fields all have a type outside string, int, integer, float,    *)
(* double, bool, boolean passes validation with any values.                *)

\* the types validateFieldType checks
CheckedTypes == {"string", "int", "integer", "float", "double", "bool", "boolean"}

C32_PermissiveSchemaParsing ==
  /\ (last.op = "schema" /\ ~last.iofail)
       => /\ last.err = "nil"
          /\ last.schema \in DOMAIN Cur.schemas
          /\ Cur.schemas[last.schema] = Text(last.arg)
  /\ (last.op = "add" /\ last.schema \in DOMAIN Cur.schemas /\ last.arg.valid
        /\ Cur.schemas[last.schema].kind = "text")
       => LET record == Stamped(last.arg.obj, clock)
              parts == Split(Cur.schemas[last.schema].s, " ")
              pairs == {Split(parts[i], ":") : i \in DOMAIN parts}
              declared == {pair \in pairs : Len(pair) = 2 /\ pair[1] \in DOMAIN record}
              WrongType(value, type) ==
                CASE type = "string" -> value.t # "string"
                  [] type \in {"int", "integer"} ->
                       value.t \notin {"number", "huge"}
                         \/ (value.t = "number" /\ value.tenths % 10 # 0)
                  [] type \in {"float", "double"} -> value.t \notin {"number", "huge"}
                  [] type \in {"bool", "boolean"} -> value.t # "bool"
                  [] OTHER -> FALSE
          IN /\ (\E pair \in declared : WrongType(record[pair[1]], pair[2]))
                  => last.err = "ValidationFailed"
             /\ (\A pair \in declared : pair[2] \notin CheckedTypes)
                  => last.err # "ValidationFailed"

\* beside a part without a colon, v:int still refuses 3.5
C32_Witness ==
  /\ last.op = "add" /\ last.schema = RecordSchema /\ last.arg.valid
  /\ RecordSchema \in DOMAIN Cur.schemas
  /\ Cur.schemas[RecordSchema] = Text("junk v:int")
  /\ DOMAIN parseSchemaFields(Cur.schemas[RecordSchema]) = {"v"}
  /\ "v" \in DOMAIN last.arg.obj /\ last.arg.obj["v"] = JNum(35)
  /\ last.err = "ValidationFailed"

----------------------------------------------------------------------------
(* C33: a record that AddRecord stores holds created_at and updated_at,    *)
(* both the time of the call, in the place of whatever the caller wrote in *)
(* those fields, and its other fields as the caller wrote them; the schema *)
(* is checked against the stamped record (a created_at declared with a     *)
(* type other than string fails whatever the caller wrote, one declared    *)
(* string passes whatever the caller wrote) and the key is derived from    *)
(* the stamped record.                                                     *)

StampFields == {"created_at", "updated_at"}

C33_StampedBeforeValidation ==
  /\ (last.op = "add" /\ last.saved)
       => \E key \in StoredKeys(Cur, last.schema) :
            LET rec == Cur.records[last.schema][key] IN
              /\ rec.kind = "json"
              /\ DOMAIN rec.obj = (DOMAIN last.arg.obj) \cup StampFields
              /\ \A f \in StampFields : rec.obj[f] = JStr(TimeString(clock))
              /\ \A f \in (DOMAIN last.arg.obj) \ StampFields : rec.obj[f] = last.arg.obj[f]
              /\ key \in DerivedKeys(last.arg.obj, clock)
  /\ (last.op = "add" /\ last.schema \in DOMAIN Cur.schemas /\ last.arg.valid)
       => LET fields == parseSchemaFields(Cur.schemas[last.schema]) IN
            /\ (\E f \in StampFields \cap DOMAIN fields : fields[f] \in CheckedTypes \ {"string"})
                 => last.err = "ValidationFailed"
            /\ (/\ (DOMAIN fields) \cap (DOMAIN last.arg.obj) \subseteq StampFields
                /\ \A f \in StampFields \cap DOMAIN fields : fields[f] = "string")
                 => last.err # "ValidationFailed"
  /\ \A d \in DOMAIN dbStates : \A n \in SchemaNames \cup {RecordSchema} :
       \A key \in StoredKeys(dbStates[d], n) :
         LET rec == dbStates[d].records[n][key] IN
           rec.kind = "json"
             => /\ StampFields \subseteq DOMAIN rec.obj
                /\ rec.obj["created_at"] = rec.obj["updated_at"]
                /\ \E t \in 1..clock : rec.obj["created_at"] = JStr(TimeString(t))

\* the caller's created_at "mine" is replaced and the record is stored
\* under the time stamp, the only text the stamped record holds
C33_Witness ==
  /\ last.op = "add" /\ last.err = "nil" /\ last.arg.valid
  /\ DOMAIN last.arg.obj = {"created_at"}
  /\ last.arg.obj["created_at"] = JStr("mine")
  /\ TimeString(clock) \in StoredKeys(Cur, RecordSchema)
  /\ Cur.records[RecordSchema][TimeString(clock)].obj["created_at"] = JStr(TimeString(clock))
  /\ "mine" \notin StoredKeys(Cur, RecordSchema)

----------------------------------------------------------------------------
(* C34: GetSchema, ListSchemas, GetRecord and ListRecords, whether they    *)
(* return a value or an error, leave the current database name, the        *)
(* schemas, records and index of every database and every file as they     *)
(* were; ListRecords on a schema that exists returns nil and one entry for  *)
(* each key stored under that schema, the record stored under it, and no    *)
(* other entry.                                                            *)
C34_ReadsChangeNothing ==
  [][(last'.op \in Reads /\ steps' = steps + 1)
     => /\ currentDB' = currentDB
        /\ dbStates' = dbStates
        /\ files' = files
        /\ (last'.op = "list" /\ last'.schema \in DOMAIN Cur.schemas)
             => /\ last'.err = "nil"
                /\ DOMAIN last'.val = StoredKeys(Cur, last'.schema)
                /\ \A k \in StoredKeys(Cur, last'.schema) :
                     last'.val[k] = Cur.records[last'.schema][k]
        /\ (last'.op = "list" /\ last'.schema \notin DOMAIN Cur.schemas)
             => last'.err = "NotFound"]_vars

\* ListRecords has returned the two records stored under User
C34_Witness ==
  /\ last.op = "list" /\ last.schema = "User" /\ last.err = "nil"
  /\ StoredKeys(Cur, "User") = {"Alice", "Bob"}
  /\ DOMAIN last.val = {"Alice", "Bob"}
  /\ files[dbPath(currentDB)].state = "ok"

----------------------------------------------------------------------------
(* The LSM tree of src/preprocessing/lsm.go.  The memory table is a Go map *)
(* and each sorted file is the list flushMemoryTable built from one map,   *)
(* so no key stands twice in a file; a file is kept as the map it was      *)
(* built from, and the order of its nodes, which only Keys shows, is       *)
(* chosen when Keys reads it.                                              *)

\* number of Put, Delete, BatchPut and Compact calls in a run
MaxOps == 4

\* the nil interface value
Nil == "<nil>"

LSMKeys == {"a", "b"}

\* the values passed to Put and BatchPut
LSMValues == {"x", "y", Nil}

\* the limits passed to NewLSMTree
MemorySizes == {1, 2, 3}

\* the maps passed to BatchPut
BatchPairs ==
  UNION {[S -> {"x", "y"}] : S \in (SUBSET LSMKeys) \ {{}}}

\* NewLSMTree
NewLSMTree(maxMemorySize) ==
  /\ lsm = NoTree
  /\ lsm' = [memoryTable |-> EmptyMap, sortedFiles |-> <<>>,
             maxMemorySize |-> maxMemorySize, currentSize |-> 0]
  /\ written' = EmptyMap
  /\ last' = Outcome("lsm.new", "", maxMemorySize, "nil", NoValue, FALSE, FALSE)
  /\ UNCHANGED <<currentDB, dbStates, files, dirs, clock, steps, faults>>
  /\ UNCHANGED <<mutex, calls, process, deleted>>

\* flushMemoryTable
flushMemoryTable(tree) ==
  [tree EXCEPT !.sortedFiles = Append(@, tree.memoryTable),
               !.memoryTable = EmptyMap,
               !.currentSize = 0]

\* the end of Put, Delete and BatchPut: flush when the limit is reached
FlushWhenFull(tree) ==
  IF tree.currentSize >= tree.maxMemorySize THEN flushMemoryTable(tree) ELSE tree

\* a call on the tree: the tree and the history after it, and its result
LSMCall(op, arg, tree, history, err, val, writes) ==
  /\ lsm # NoTree
  /\ lsm' = tree
  /\ written' = history
  /\ last' = Outcome(op, "", arg, err, val, FALSE, FALSE)
  /\ steps' = IF writes THEN steps + 1 ELSE steps
  /\ UNCHANGED <<currentDB, dbStates, files, dirs, clock, faults>>
  /\ UNCHANGED <<mutex, calls, process, deleted>>

\* Put
LSMTree_Put(key, value) ==
  /\ steps < MaxOps
  /\ lsm # NoTree
  /\ LSMCall("lsm.put", <<key, value>>,
             FlushWhenFull([lsm EXCEPT !.memoryTable = Put(@, key, value),
                                       !.currentSize = @ + 1]),
             Put(written, key, [op |-> "put", val |-> value]),
             "nil", NoValue, TRUE)

RECURSIVE ScanFiles(_, _, _)
\* the loop of Get over the sorted files, from file i down to the first
ScanFiles(sortedFiles, i, key) ==
  IF i = 0 THEN [err |-> "NotFound", val |-> Nil]
  ELSE IF key \in DOMAIN sortedFiles[i] THEN [err |-> "nil", val |-> sortedFiles[i][key]]
  ELSE ScanFiles(sortedFiles, i - 1, key)

\* the value and the error Get returns on a tree
get(tree, key) ==
  IF key \in DOMAIN tree.memoryTable
    THEN [err |-> "nil", val |-> tree.memoryTable[key]]
    ELSE ScanFiles(tree.sortedFiles, Len(tree.sortedFiles), key)

\* Get
LSMTree_Get(key) ==
  /\ lsm # NoTree
  /\ LET res == get(lsm, key) IN LSMCall("lsm.get", key, lsm, written, res.err, res.val, FALSE)

\* Delete
LSMTree_Delete(key) ==
  /\ steps < MaxOps
  /\ lsm # NoTree
  /\ LSMCall("lsm.delete", key,
             FlushWhenFull([lsm EXCEPT !.memoryTable = Put(@, key, Nil),
                                       !.currentSize = @ + 1]),
             Put(written, key, [op |-> "delete"]),
             "nil", NoValue, TRUE)

\* one sorted file read into the map consolidated of Compact
Consolidate(consolidated, file, memoryTable) ==
  LET live == {k \in DOMAIN file : file[k] # Nil}
      dead == {k \in DOMAIN file : file[k] = Nil /\ k \notin DOMAIN memoryTable}
  IN [k \in ((DOMAIN consolidated) \cup live) \ dead |->
        IF k \in live THEN file[k] ELSE consolidated[k]]

RECURSIVE ConsolidateFrom(_, _, _, _)
\* the loop of Compact over the sorted files, from file i on
ConsolidateFrom(consolidated, sortedFiles, i, memoryTable) ==
  IF i > Len(sortedFiles) THEN consolidated
  ELSE ConsolidateFrom(Consolidate(consolidated, sortedFiles[i], memoryTable),
                       sortedFiles, i + 1, memoryTable)

\* the tree after Compact
compact(tree) ==
  IF Len(tree.sortedFiles) > 1
    THEN [tree EXCEPT !.sortedFiles =
                        <<ConsolidateFrom(EmptyMap, tree.sortedFiles, 1, tree.memoryTable)>>]
    ELSE tree

\* Compact
LSMTree_Compact ==
  /\ steps < MaxOps
  /\ lsm # NoTree
  /\ LSMCall("lsm.compact", "", compact(lsm), written, "nil", NoValue, TRUE)

RECURSIVE CountFiles(_, _)
\* the loop of Size: the lengths of the sorted files from file i on
CountFiles(sortedFiles, i) ==
  IF i > Len(sortedFiles) THEN 0
  ELSE Cardinality(DOMAIN sortedFiles[i]) + CountFiles(sortedFiles, i + 1)

\* the number Size returns on a tree
size(tree) == Cardinality(DOMAIN tree.memoryTable) + CountFiles(tree.sortedFiles, 1)

\* Size
LSMTree_Size ==
  /\ lsm # NoTree
  /\ LSMCall("lsm.size", "", lsm, written, "nil", size(lsm), FALSE)

RECURSIVE KeysFrom(_, _, _)
\* the loop of Keys over the sorted files from file i on: the slices it can
\* come to from the slices in keys, one for each order of the nodes
KeysFrom(keys, sortedFiles, i) ==
  IF i > Len(sortedFiles) THEN keys
  ELSE KeysFrom(UNION {{ks \o more : more \in Orders((DOMAIN sortedFiles[i]) \ Range(ks))}
                       : ks \in keys},
                sortedFiles, i + 1)

\* the slices Keys can return on a tree
keys(tree) == KeysFrom(Orders(DOMAIN tree.memoryTable), tree.sortedFiles, 1)

\* Keys
LSMTree_Keys ==
  /\ lsm # NoTree
  /\ \E ks \in keys(lsm) : LSMCall("lsm.keys", "", lsm, written, "nil", ks, FALSE)

\* BatchPut
LSMTree_BatchPut(pairs) ==
  /\ steps < MaxOps
  /\ lsm # NoTree
  /\ LSMCall("lsm.batchput", pairs,
             FlushWhenFull([lsm EXCEPT
                              !.memoryTable = [k \in (DOMAIN @) \cup (DOMAIN pairs) |->
                                                 IF k \in DOMAIN pairs THEN pairs[k] ELSE @[k]],
                              !.currentSize = @ + Cardinality(DOMAIN pairs)]),
             [k \in (DOMAIN written) \cup (DOMAIN pairs) |->
                IF k \in DOMAIN pairs THEN [op |-> "put", val |-> pairs[k]] ELSE written[k]],
             "nil", NoValue, TRUE)

NextLSM ==
  \/ \E m \in MemorySizes : NewLSMTree(m)
  \/ \E k \in LSMKeys, v \in LSMValues : LSMTree_Put(k, v)
  \/ \E k \in LSMKeys : LSMTree_Get(k)
  \/ \E k \in LSMKeys : LSMTree_Delete(k)
  \/ LSMTree_Compact
  \/ LSMTree_Size
  \/ LSMTree_Keys
  \/ \E pairs \in BatchPairs : LSMTree_BatchPut(pairs)

SpecLSM == Init /\ [][NextLSM]_vars

----------------------------------------------------------------------------
(* C35: when the last Put, BatchPut or Delete of a key was a Put or a      *)
(* BatchPut, Get of that key returns no error and the value then written,  *)
(* whatever flushes and Compact calls came in between.                     *)
C35_ReadYourWrites ==
  (last.op = "lsm.get" /\ last.arg \in DOMAIN written /\ written[last.arg].op = "put")
  => /\ last.err = "nil"
     /\ last.val = written[last.arg].val

----------------------------------------------------------------------------
(* C36: when the last Put, BatchPut or Delete of a key was a Delete, Get   *)
(* of that key returns the error that the key is not found; and Compact    *)
(* leaves what Get returns, value and error, as it was for every key.      *)
C36_DeleteAndCompactConsistent ==
  [][/\ (last'.op = "lsm.get" /\ last'.arg \in DOMAIN written'
           /\ written'[last'.arg].op = "delete")
          => last'.err = "NotFound"
     /\ (last'.op = "lsm.compact" /\ steps' = steps + 1)
          => \A k \in LSMKeys : get(lsm', k) = get(lsm, k)]_vars

----------------------------------------------------------------------------
(* C37: the number Size returns is the number of distinct keys in the      *)
(* slice Keys returns on the same tree: a key written twice, or held by    *)
(* the memory table and by sorted files, counts once.                      *)
C37_SizeCountsKeysOnce ==
  last.op = "lsm.size"
  => \A ks \in keys(lsm) : last.val = Cardinality(Range(ks))

====
